---- MODULE Spec2Model ----
(***************************************************************************)
(* A model of the SDL2 backend of doukutsu-rs                              *)
(* (src/src/framework/backend_sdl2.rs): the frame loop of                  *)
(* SDL2EventLoop::run with its event dispatch, the scancode translation    *)
(* conv_scancode, and the sprite-batch command buffer of SDL2Texture.      *)
(***************************************************************************)
EXTENDS Integers, Sequences, FiniteSets, TLC

(***************************************************************************)
(* Option values: Some(x) is the one-element tuple, None the empty one.    *)
(***************************************************************************)
None == <<>>
Some(x) == <<x>>
IsSome(o) == o # None
Unwrap(o) == o[1]

Max(a, b) == IF a > b THEN a ELSE b
Last(s) == s[Len(s)]

(***************************************************************************)
(* Bounds of the model.                                                    *)
(***************************************************************************)
\* events the platform delivers during one run of the frame loop
MaxEvents == 2
\* complete iterations of the frame loop that are explored
MaxFrames == 2
\* largest value the game leaves in game.loops
MaxLoops == 1
\* largest value (in whole units) the game leaves in state.frame_time
MaxFrameTime == 1
\* events queued before run is called in the event-dispatch specification
MaxDispatch == 3
\* calls made on the texture and its renderer
MaxOps == 5

(***************************************************************************)
(* Platform scancodes.  MappedScancodes are the sdl2 Scancode values that  *)
(* have an arm of their own in conv_scancode; UnmappedScancodes are sdl2   *)
(* Scancode values that fall to the default arm.                           *)
(***************************************************************************)
MappedScancodes == {
    "A", "B", "C", "D", "E", "F", "G", "H", "I", "J", "K", "L", "M", "N",
    "O", "P", "Q", "R", "S", "T", "U", "V", "W", "X", "Y", "Z", "Num1",
    "Num2", "Num3", "Num4", "Num5", "Num6", "Num7", "Num8", "Num9", "Num0",
    "Return", "Escape", "Backspace", "Tab", "Space", "Minus", "Equals",
    "LeftBracket", "RightBracket", "Backslash", "NonUsHash", "Semicolon",
    "Apostrophe", "Grave", "Comma", "Period", "Slash", "CapsLock", "F1",
    "F2", "F3", "F4", "F5", "F6", "F7", "F8", "F9", "F10", "F11", "F12",
    "PrintScreen", "ScrollLock", "Pause", "Insert", "Home", "PageUp",
    "Delete", "End", "PageDown", "Right", "Left", "Down", "Up",
    "NumLockClear", "KpDivide", "KpMultiply", "KpMinus", "KpPlus", "KpEnter",
    "Kp1", "Kp2", "Kp3", "Kp4", "Kp5", "Kp6", "Kp7", "Kp8", "Kp9", "Kp0",
    "NonUsBackslash", "Application", "Power", "KpEquals", "F13", "F14",
    "F15", "F16", "F17", "F18", "F19", "F20", "F21", "F22", "F23", "F24",
    "Stop", "Cut", "Copy", "Paste", "Mute", "VolumeUp", "VolumeDown",
    "KpComma", "SysReq", "Return2", "LCtrl", "LShift", "LAlt", "LGui",
    "RCtrl", "RShift", "RAlt", "RGui", "AudioNext", "AudioPrev", "AudioStop",
    "AudioPlay", "AudioMute", "MediaSelect", "Mail", "Calculator", "Sleep" }

UnmappedScancodes == {"International1", "Lang1", "Help", "Menu"}

Scancodes == MappedScancodes \cup UnmappedScancodes

\* match code { ... }, lines 560-700
ScancodeMatch(code) ==
    CASE code = "A" -> Some("A")
      [] code = "B" -> Some("B")
      [] code = "C" -> Some("C")
      [] code = "D" -> Some("D")
      [] code = "E" -> Some("E")
      [] code = "F" -> Some("F")
      [] code = "G" -> Some("G")
      [] code = "H" -> Some("H")
      [] code = "I" -> Some("I")
      [] code = "J" -> Some("J")
      [] code = "K" -> Some("K")
      [] code = "L" -> Some("L")
      [] code = "M" -> Some("M")
      [] code = "N" -> Some("N")
      [] code = "O" -> Some("O")
      [] code = "P" -> Some("P")
      [] code = "Q" -> Some("Q")
      [] code = "R" -> Some("R")
      [] code = "S" -> Some("S")
      [] code = "T" -> Some("T")
      [] code = "U" -> Some("U")
      [] code = "V" -> Some("V")
      [] code = "W" -> Some("W")
      [] code = "X" -> Some("X")
      [] code = "Y" -> Some("Y")
      [] code = "Z" -> Some("Z")
      [] code = "Num1" -> Some("Key1")
      [] code = "Num2" -> Some("Key2")
      [] code = "Num3" -> Some("Key3")
      [] code = "Num4" -> Some("Key4")
      [] code = "Num5" -> Some("Key5")
      [] code = "Num6" -> Some("Key6")
      [] code = "Num7" -> Some("Key7")
      [] code = "Num8" -> Some("Key8")
      [] code = "Num9" -> Some("Key9")
      [] code = "Num0" -> Some("Key0")
      [] code = "Return" -> Some("Return")
      [] code = "Escape" -> Some("Escape")
      [] code = "Backspace" -> Some("Backspace")
      [] code = "Tab" -> Some("Tab")
      [] code = "Space" -> Some("Space")
      [] code = "Minus" -> Some("Minus")
      [] code = "Equals" -> Some("Equals")
      [] code = "LeftBracket" -> Some("LBracket")
      [] code = "RightBracket" -> Some("RBracket")
      [] code = "Backslash" -> Some("Backslash")
      [] code = "NonUsHash" -> Some("NonUsHash")
      [] code = "Semicolon" -> Some("Semicolon")
      [] code = "Apostrophe" -> Some("Apostrophe")
      [] code = "Grave" -> Some("Grave")
      [] code = "Comma" -> Some("Comma")
      [] code = "Period" -> Some("Period")
      [] code = "Slash" -> Some("Slash")
      [] code = "CapsLock" -> Some("Capslock")
      [] code = "F1" -> Some("F1")
      [] code = "F2" -> Some("F2")
      [] code = "F3" -> Some("F3")
      [] code = "F4" -> Some("F4")
      [] code = "F5" -> Some("F5")
      [] code = "F6" -> Some("F6")
      [] code = "F7" -> Some("F7")
      [] code = "F8" -> Some("F8")
      [] code = "F9" -> Some("F9")
      [] code = "F10" -> Some("F10")
      [] code = "F11" -> Some("F11")
      [] code = "F12" -> Some("F12")
      [] code = "PrintScreen" -> Some("Sysrq")
      [] code = "ScrollLock" -> Some("Scrolllock")
      [] code = "Pause" -> Some("Pause")
      [] code = "Insert" -> Some("Insert")
      [] code = "Home" -> Some("Home")
      [] code = "PageUp" -> Some("PageUp")
      [] code = "Delete" -> Some("Delete")
      [] code = "End" -> Some("End")
      [] code = "PageDown" -> Some("PageDown")
      [] code = "Right" -> Some("Right")
      [] code = "Left" -> Some("Left")
      [] code = "Down" -> Some("Down")
      [] code = "Up" -> Some("Up")
      [] code = "NumLockClear" -> Some("Numlock")
      [] code = "KpDivide" -> Some("NumpadDivide")
      [] code = "KpMultiply" -> Some("NumpadMultiply")
      [] code = "KpMinus" -> Some("NumpadSubtract")
      [] code = "KpPlus" -> Some("NumpadAdd")
      [] code = "KpEnter" -> Some("NumpadEnter")
      [] code = "Kp1" -> Some("Numpad1")
      [] code = "Kp2" -> Some("Numpad2")
      [] code = "Kp3" -> Some("Numpad3")
      [] code = "Kp4" -> Some("Numpad4")
      [] code = "Kp5" -> Some("Numpad5")
      [] code = "Kp6" -> Some("Numpad6")
      [] code = "Kp7" -> Some("Numpad7")
      [] code = "Kp8" -> Some("Numpad8")
      [] code = "Kp9" -> Some("Numpad9")
      [] code = "Kp0" -> Some("Numpad0")
      [] code = "NonUsBackslash" -> Some("NonUsBackslash")
      [] code = "Application" -> Some("Apps")
      [] code = "Power" -> Some("Power")
      [] code = "KpEquals" -> Some("NumpadEquals")
      [] code = "F13" -> Some("F13")
      [] code = "F14" -> Some("F14")
      [] code = "F15" -> Some("F15")
      [] code = "F16" -> Some("F16")
      [] code = "F17" -> Some("F17")
      [] code = "F18" -> Some("F18")
      [] code = "F19" -> Some("F19")
      [] code = "F20" -> Some("F20")
      [] code = "F21" -> Some("F21")
      [] code = "F22" -> Some("F22")
      [] code = "F23" -> Some("F23")
      [] code = "F24" -> Some("F24")
      [] code = "Stop" -> Some("Stop")
      [] code = "Cut" -> Some("Cut")
      [] code = "Copy" -> Some("Copy")
      [] code = "Paste" -> Some("Paste")
      [] code = "Mute" -> Some("Mute")
      [] code = "VolumeUp" -> Some("VolumeUp")
      [] code = "VolumeDown" -> Some("VolumeDown")
      [] code = "KpComma" -> Some("NumpadComma")
      [] code = "SysReq" -> Some("Sysrq")
      [] code = "Return2" -> Some("NumpadEnter")
      [] code = "LCtrl" -> Some("LControl")
      [] code = "LShift" -> Some("LShift")
      [] code = "LAlt" -> Some("LAlt")
      [] code = "LGui" -> Some("LWin")
      [] code = "RCtrl" -> Some("RControl")
      [] code = "RShift" -> Some("RShift")
      [] code = "RAlt" -> Some("RAlt")
      [] code = "RGui" -> Some("RWin")
      [] code = "AudioNext" -> Some("NextTrack")
      [] code = "AudioPrev" -> Some("PrevTrack")
      [] code = "AudioStop" -> Some("MediaStop")
      [] code = "AudioPlay" -> Some("PlayPause")
      [] code = "AudioMute" -> Some("Mute")
      [] code = "MediaSelect" -> Some("MediaSelect")
      [] code = "Mail" -> Some("Mail")
      [] code = "Calculator" -> Some("Calculator")
      [] code = "Sleep" -> Some("Sleep")
      [] OTHER -> None

\* a translation with one arm mistyped: keypad 0 gives the digit row's 0
conv_scancode_Kp0AsKey0(code) ==
    IF code = "Kp0" THEN Some("Key0") ELSE ScancodeMatch(code)

\* a translation whose default arm yields a key instead of None
conv_scancode_DefaultMapped(code) ==
    IF code \in MappedScancodes THEN ScancodeMatch(code) ELSE Some("Unlabeled")

\* fn conv_scancode(code: keyboard::Scancode) -> Option<ScanCode>
conv_scancode(code) == ScancodeMatch(code)

(***************************************************************************)
(* The casts `as f32` of an i32 / u32: exact below 2^24, and rounded to    *)
(* the nearest representable value (ties to even) above.                   *)
(***************************************************************************)
F32Exact == 16777216

RECURSIVE F32Ulp(_, _)
F32Ulp(m, ulp) == IF m < F32Exact * ulp THEN ulp ELSE F32Ulp(m, 2 * ulp)

F32Round(m) ==
    IF m < F32Exact THEN m
    ELSE LET ulp == F32Ulp(m, 2)
             q == m \div ulp
             r == m % ulp
         IN  IF 2 * r < ulp THEN q * ulp
             ELSE IF 2 * r > ulp THEN (q + 1) * ulp
             ELSE IF q % 2 = 0 THEN q * ulp ELSE (q + 1) * ulp

AsF32(n) == IF n < 0 THEN 0 - F32Round(0 - n) ELSE F32Round(n)

(***************************************************************************)
(* State.                                                                  *)
(***************************************************************************)
VARIABLES
    pc,                \* position of SDL2EventLoop::run
    queue,             \* event_pump: the platform events not yet polled
    arrived,           \* every event the platform has delivered, in order
    consumed,          \* events dispatched in earlier iterations
    renderer,          \* ctx.renderer is Some
    window_size,       \* canvas.window().size()
    screen_size,       \* ctx.screen_size
    display_size,      \* imgui.io_mut().display_size
    keyboard_context,  \* ctx.keyboard_context: the engine keys whose bit is set
    shutdown,          \* state.shutdown
    scene,             \* game.scene
    next_scene,        \* state.next_scene
    loops,             \* game.loops
    frame_time,        \* state.frame_time
    trace,             \* the calls run has made in the current iteration
    frame,             \* iterations completed
    texture,           \* SDL2Texture.texture: the native handle, if held
    width,             \* SDL2Texture.width
    height,            \* SDL2Texture.height
    commands,          \* SDL2Texture.commands
    blend_mode,        \* SDL2Context.blend_mode
    blits,             \* the canvas.copy calls made so far, in order
    history,           \* the calls made on the texture and the renderer
    textures,          \* the SDL2Texture values a renderer has created
    target,            \* the driver's current render target (0: the window)
    requested,         \* the arguments of the latest set_blend_mode and
                       \* set_render_target calls
    released,          \* how often each native handle was destroyed
    returned,          \* the latest renderer or texture call and its result
    driver,            \* the driver calls that call made, in order
    imgui_pc,          \* position of render_imgui in an Elements command
    cmd,               \* the Elements command and its vertices
    idx,               \* i of `for i in (0..count).step_by(3)`
    is_rect,           \* is_rect of render_imgui
    clip_rect,         \* the canvas clip rectangle
    emitted,           \* the primitives render_imgui has drawn, in order
    read,              \* the positions of the index buffer it has read
    raw_callback,      \* what the callback of the RawCallback command that
                       \* precedes the Elements command calls ("" if the
                       \* draw list has no such command)
    holders,           \* the live owners of a clone of refs
    strong,            \* the strong count of refs (Rc<RefCell<SDL2Context>>)
    borrow,            \* the borrow flag of refs: 0 unborrowed, n > 0 for n
                       \* shared borrows, -1 mutably borrowed
    borrow_error,      \* the caller whose borrow of refs panicked, if any
    imgui_live,        \* the `&mut imgui::Context` references that were live
                       \* when the latest of them was made
    upload,            \* the arguments of a create_texture call and the pitch
                       \* of the locked texture
    buffer             \* the locked pixel buffer (-1: a byte not written)

loopVars == <<pc, queue, arrived, consumed, renderer, window_size, screen_size,
              display_size, keyboard_context, shutdown, scene, next_scene,
              loops, frame_time, trace, frame>>

texVars == <<texture, width, height, commands, blend_mode, blits, history>>

rendVars == <<textures, target, requested, released, returned, driver>>

imguiVars == <<imgui_pc, cmd, idx, is_rect, clip_rect, emitted, read,
               raw_callback>>

uploadVars == <<upload, buffer>>

\* the shared context cell and the references to the imgui context
sharedVars == <<holders, strong, borrow, borrow_error, imgui_live>>

\* everything the frame loop of run leaves alone
drawVars == <<texVars, rendVars, imguiVars, uploadVars>>

vars == <<loopVars, texVars, rendVars, imguiVars, sharedVars, uploadVars>>

(***************************************************************************)
(* Platform events (sdl2::event::Event), as far as run tells them apart.   *)
(***************************************************************************)
Event(type, win_event, w, h, scancode, repeat) ==
    [type |-> type, win_event |-> win_event, w |-> w, h |-> h,
     scancode |-> scancode, repeat |-> repeat]

Quit == Event("Quit", "", 0, 0, None, FALSE)
Window(win_event) == Event("Window", win_event, 0, 0, None, FALSE)
SizeChanged(w, h) == Event("Window", "SizeChanged", w, h, None, FALSE)
KeyDown(scancode, repeat) == Event("KeyDown", "", 0, 0, scancode, repeat)
KeyUp(scancode) == Event("KeyUp", "", 0, 0, scancode, FALSE)
MouseMotion == Event("MouseMotion", "", 0, 0, None, FALSE)

\* the events the platform delivers in the frame-loop specification
LoopEvents == {Quit, KeyDown(Some("A"), TRUE), MouseMotion}

\* the widths and heights a SizeChanged event carries in the event-dispatch
\* specification
ResizeSample == {-3, 0, 1, 720, 16777217}

\* the events other than key events in the event-dispatch specification
WindowEvents ==
    {Quit, Window("Shown"), Window("Hidden"), Window("Moved"), MouseMotion}
    \cup {SizeChanged(w, h) : w \in ResizeSample, h \in ResizeSample}

\* the key events of the scancodes in `codes` (an absent scancode included)
KeyEvents(codes) ==
    {KeyDown(c, r) : c \in codes, r \in BOOLEAN} \cup {KeyUp(c) : c \in codes}

ScancodeOptions == {None} \cup {Some(c) : c \in Scancodes}

Scenes == {"s1", "s2"}

(***************************************************************************)
(* The calls run makes, as they are recorded in trace.                     *)
(***************************************************************************)
Call(op, arg) == [op |-> op, arg |-> arg]

\* the iteration's trace a poll appends to: a trace that ends with the draw
\* of the previous iteration belongs to that iteration
IterTrace == IF trace # <<>> /\ Last(trace).op = "draw" THEN <<>> ELSE trace

\* the events dispatched in the iteration of trace t
RECURSIVE Handled(_)
Handled(t) ==
    IF t = <<>> THEN <<>>
    ELSE IF t[1].op = "handle_event" THEN <<t[1].arg[1]>> \o Handled(Tail(t))
    ELSE Handled(Tail(t))

(***************************************************************************)
(* The game (crate::Game and its shared state), an external collaborator.  *)
(***************************************************************************)
\* KeyboardContext::set_key
set_key(kc, key, value) == IF value THEN kc \cup {key} ELSE kc \ {key}

(***************************************************************************)
(* refs: Rc<RefCell<SDL2Context>>, built by SDL2EventLoop::new (line 81)   *)
(* and cloned into the renderer, the font texture the renderer keeps in    *)
(* imgui_textures, and every texture the renderer creates.                 *)
(***************************************************************************)
Holder(kind, id) == <<kind, id>>

EventLoopHolder == Holder("event_loop", 0)
RendererHolders == {Holder("renderer", 0), Holder("imgui_textures", 0)}

\* a texture that keeps no reference of its own to the context
Rc_clone_NoCount(count) == count

\* Rc::clone, lines 176, 220, 287, 318
Rc_clone(count) == count + 1

\* the drop of a field of type Rc; the context is dropped with the last one
Rc_drop(count) == count - 1

\* the context cell with the event loop built and, if r, its renderer
SharedIdle(r) ==
    /\ holders = {EventLoopHolder} \cup (IF r THEN RendererHolders ELSE {})
    /\ strong = 1 + (IF r THEN 2 ELSE 0)
    /\ borrow = 0
    /\ borrow_error = ""
    /\ imgui_live = {}

\* no create_texture call is under way
NoUpload == [width |-> 0, height |-> 0, pitch |-> 0, data |-> <<>>]

UploadIdle == upload = NoUpload /\ buffer = <<>>

(***************************************************************************)
(* SDL2EventLoop::new_renderer, lines 175-177, called on the event loop    *)
(* that SDL2EventLoop::new has built (lines 60-89), its result being put   *)
(* into ctx.renderer.  It takes &self while run holds &mut self, so it is  *)
(* called before run is or after run has returned.  SDL2Renderer::new may  *)
(* fail (lines 190, 202, 217); then there is no renderer to store.         *)
(***************************************************************************)
NewRenderer ==
    /\ pc \in {"start", "done"}
    /\ \E ok \in BOOLEAN :
           /\ renderer' = (renderer \/ ok)
           /\ IF ok /\ ~renderer
              THEN /\ holders' = holders \cup RendererHolders
                   /\ strong' = Rc_clone(Rc_clone(strong))
              ELSE UNCHANGED <<holders, strong>>
    /\ UNCHANGED <<pc, queue, arrived, consumed, window_size, screen_size,
                   display_size, keyboard_context, shutdown, scene,
                   next_scene, loops, frame_time, trace, frame>>
    /\ UNCHANGED <<borrow, borrow_error, imgui_live>>
    /\ UNCHANGED drawVars

\* a prologue that does not look at ctx.renderer
RunStart_NoRenderer ==
    /\ pc = "start"
    /\ LET size == <<AsF32(Max(window_size[1], 1)),
                     AsF32(Max(window_size[2], 1))>>
       IN  /\ screen_size' = size
           /\ display_size' = size
           /\ pc' = "poll"
    /\ UNCHANGED <<queue, arrived, consumed, renderer, window_size,
                   keyboard_context, shutdown, scene, next_scene, loops,
                   frame_time, trace, frame>>
    /\ UNCHANGED <<drawVars, sharedVars>>

(***************************************************************************)
(* SDL2EventLoop::run, lines 93-108: the renderer is unwrapped and the     *)
(* window size is taken over before the loop is entered.  The prologue     *)
(* makes `imgui`, a `&mut imgui::Context` made from renderer.imgui.as_ptr()*)
(* (lines 96-100), which run uses in every iteration (lines 112, 170).     *)
(***************************************************************************)
RunStart ==
    /\ pc = "start"
    /\ IF renderer
       THEN LET size == <<AsF32(Max(window_size[1], 1)),
                          AsF32(Max(window_size[2], 1))>>
            IN  /\ screen_size' = size
                /\ display_size' = size
                /\ pc' = "poll"
                /\ imgui_live' = {"run"}
       ELSE /\ pc' = "panicked"
            /\ UNCHANGED <<screen_size, display_size, imgui_live>>
    /\ UNCHANGED <<queue, arrived, consumed, renderer, window_size,
                   keyboard_context, shutdown, scene, next_scene, loops,
                   frame_time, trace, frame>>
    /\ UNCHANGED <<holders, strong, borrow, borrow_error>>
    /\ UNCHANGED drawVars

(***************************************************************************)
(* The platform queues an event; the pump hands events out in this order.  *)
(* An event queued at any point after the for loop has ended is seen by    *)
(* the same poll, the first of the next iteration, so the model queues     *)
(* events while the for loop runs and right after it has ended.            *)
(***************************************************************************)
Arrive(e) ==
    /\ pc \in {"poll", "update"}
    /\ Len(arrived) < MaxEvents
    /\ queue' = Append(queue, e)
    /\ arrived' = Append(arrived, e)
    /\ UNCHANGED <<pc, consumed, renderer, window_size, screen_size,
                   display_size, keyboard_context, shutdown, scene,
                   next_scene, loops, frame_time, trace, frame>>
    /\ UNCHANGED <<drawVars, sharedVars>>

(***************************************************************************)
(* The body of `for event in self.event_pump.poll_iter()`, lines 111-152,  *)
(* for one event: what it does to the context and the calls it makes.      *)
(***************************************************************************)
\* a resize handler without the clamp to 1
OnSizeChanged_NoClamp(event) ==
    LET size == <<AsF32(event.w), AsF32(event.h)>>
        display == IF renderer THEN size ELSE display_size
    IN  [screen_size |-> size, display_size |-> display,
         keyboard_context |-> keyboard_context, shutdown |-> shutdown,
         calls |-> <<Call("handle_resize", <<size, display>>)>>]

\* WindowEvent::SizeChanged(width, height), lines 122-131
OnSizeChanged(event) ==
    LET size == <<AsF32(Max(event.w, 1)), AsF32(Max(event.h, 1))>>
        display == IF renderer THEN size ELSE display_size
    IN  [screen_size |-> size, display_size |-> display,
         keyboard_context |-> keyboard_context, shutdown |-> shutdown,
         calls |-> <<Call("handle_resize", <<size, display>>)>>]

\* a key-down handler that passes the key on without the repeat flag
OnKeyDown_DropsRepeat(event) ==
    LET drs_scan == IF IsSome(event.scancode)
                    THEN conv_scancode(Unwrap(event.scancode)) ELSE None
    IN  IF IsSome(drs_scan)
        THEN [screen_size |-> screen_size, display_size |-> display_size,
              keyboard_context |->
                  set_key(keyboard_context, Unwrap(drs_scan), TRUE),
              shutdown |-> shutdown,
              calls |-> <<Call("key_down_event",
                               <<Unwrap(drs_scan), FALSE>>)>>]
        ELSE [screen_size |-> screen_size, display_size |-> display_size,
              keyboard_context |-> keyboard_context, shutdown |-> shutdown,
              calls |-> <<>>]

\* Event::KeyDown { scancode, repeat, .. }, lines 135-142
OnKeyDown(event) ==
    LET drs_scan == IF IsSome(event.scancode)
                    THEN conv_scancode(Unwrap(event.scancode)) ELSE None
    IN  IF IsSome(drs_scan)
        THEN [screen_size |-> screen_size, display_size |-> display_size,
              keyboard_context |->
                  set_key(keyboard_context, Unwrap(drs_scan), TRUE),
              shutdown |-> shutdown,
              calls |-> <<Call("key_down_event",
                               <<Unwrap(drs_scan), event.repeat>>)>>]
        ELSE [screen_size |-> screen_size, display_size |-> display_size,
              keyboard_context |-> keyboard_context, shutdown |-> shutdown,
              calls |-> <<>>]

\* Event::KeyUp { scancode, .. }, lines 143-149
OnKeyUp(event) ==
    LET drs_scan == IF IsSome(event.scancode)
                    THEN conv_scancode(Unwrap(event.scancode)) ELSE None
    IN  [screen_size |-> screen_size, display_size |-> display_size,
         keyboard_context |->
             IF IsSome(drs_scan)
             THEN set_key(keyboard_context, Unwrap(drs_scan), FALSE)
             ELSE keyboard_context,
         shutdown |-> shutdown,
         calls |-> <<>>]

\* a Quit arm that does not raise the latch
OnQuit_NoLatch(event) ==
    [screen_size |-> screen_size, display_size |-> display_size,
     keyboard_context |-> keyboard_context, shutdown |-> shutdown,
     calls |-> <<>>]

\* Event::Quit { .. }, lines 115-117: state.shutdown()
OnQuit(event) ==
    [screen_size |-> screen_size, display_size |-> display_size,
     keyboard_context |-> keyboard_context, shutdown |-> TRUE,
     calls |-> <<Call("shutdown", <<>>)>>]

\* every other event, and the window events run ignores
OnIgnored(event) ==
    [screen_size |-> screen_size, display_size |-> display_size,
     keyboard_context |-> keyboard_context, shutdown |-> shutdown,
     calls |-> <<>>]

\* match event { ... }, lines 114-151
Dispatch(event) ==
    CASE event.type = "Quit" -> OnQuit(event)
      [] event.type = "Window" /\ event.win_event = "SizeChanged" ->
             OnSizeChanged(event)
      [] event.type = "KeyDown" -> OnKeyDown(event)
      [] event.type = "KeyUp" -> OnKeyUp(event)
      [] OTHER -> OnIgnored(event)

\* a loop that hands the immediate-UI handler only the events it matches
Forward_MatchedOnly(event) ==
    IF event.type \in {"Quit", "Window", "KeyDown", "KeyUp"}
    THEN <<Call("handle_event", <<event>>)>>
    ELSE <<>>

\* imgui_sdl2.handle_event(imgui, &event), line 112: the first statement of
\* the loop body, before the match
Forward(event) == <<Call("handle_event", <<event>>)>>

\* the `&mut imgui::Context` the match arm of the event makes: the arm for
\* SizeChanged calls renderer.imgui(), which makes one from
\* self.imgui.as_ptr() (lines 125-129, 360-364)
ImguiTaken(event) ==
    IF event.type = "Window" /\ event.win_event = "SizeChanged" /\ renderer
    THEN {"SizeChanged"}
    ELSE {}

\* the event poll_iter yields next
NextEvent(q) == Head(q)

\* one turn of the for loop: the event is handed to the immediate-UI event
\* handler (line 112), then matched
PollEvent ==
    /\ pc = "poll"
    /\ frame < MaxFrames
    /\ queue # <<>>
    /\ LET event == NextEvent(queue)
           out == Dispatch(event)
       IN  /\ queue' = Tail(queue)
           /\ screen_size' = out.screen_size
           /\ display_size' = out.display_size
           /\ keyboard_context' = out.keyboard_context
           /\ shutdown' = out.shutdown
           /\ trace' = IterTrace \o <<Call("poll", <<>>)>> \o Forward(event)
                                 \o out.calls
    /\ consumed' = IF IterTrace = trace THEN consumed
                   ELSE consumed + Len(Handled(trace))
    /\ imgui_live' = IF ImguiTaken(NextEvent(queue)) = {} THEN imgui_live
                     ELSE {"run"} \cup ImguiTaken(NextEvent(queue))
    /\ UNCHANGED <<pc, arrived, renderer, window_size, scene, next_scene,
                   loops, frame_time, frame>>
    /\ UNCHANGED <<holders, strong, borrow, borrow_error>>
    /\ UNCHANGED drawVars

\* poll_iter is exhausted: the for loop ends, line 152
PollNone ==
    /\ pc = "poll"
    /\ frame < MaxFrames
    /\ queue = <<>>
    /\ pc' = "update"
    /\ trace' = Append(IterTrace, Call("poll", <<>>))
    /\ consumed' = IF IterTrace = trace THEN consumed
                   ELSE consumed + Len(Handled(trace))
    /\ UNCHANGED <<queue, arrived, renderer, window_size, screen_size,
                   display_size, keyboard_context, shutdown, scene,
                   next_scene, loops, frame_time, frame>>
    /\ UNCHANGED <<drawVars, sharedVars>>

(***************************************************************************)
(* Result::unwrap on what update, init and draw return, lines 154, 165 and *)
(* 171: the loop goes on to `next` on Ok and the thread panics on Err.     *)
(***************************************************************************)
Results == {"Ok", "Err"}

\* a loop that drops the result instead of unwrapping it
unwrap_Ignores(result, next) == next

unwrap(result, next) == IF result = "Ok" THEN next ELSE "panicked"

(***************************************************************************)
(* game.update(ctx).unwrap(), line 154.  What update does to the game is   *)
(* the game's own affair: it may ask for a scene, request the shutdown     *)
(* and move loops and frame_time; an Err makes unwrap panic.               *)
(***************************************************************************)
Update ==
    /\ pc = "update"
    /\ \E result \in Results :
           /\ trace' = Append(trace, Call("update", <<result>>))
           /\ pc' = unwrap(result, "check")
           /\ IF result = "Ok"
              THEN /\ next_scene' \in
                          {next_scene} \cup {Some(s) : s \in Scenes}
                   /\ shutdown' \in {shutdown, TRUE}
                   /\ loops' \in 0..MaxLoops
                   /\ frame_time' \in 0..MaxFrameTime
              ELSE UNCHANGED <<next_scene, shutdown, loops, frame_time>>
    /\ UNCHANGED <<queue, arrived, consumed, renderer, window_size,
                   screen_size, display_size, keyboard_context, scene, frame>>
    /\ UNCHANGED <<drawVars, sharedVars>>

\* a loop that goes from update straight to draw
AfterUpdate_SkipsPrepare == IF shutdown THEN "done" ELSE "draw"

\* where run goes after update has returned, lines 156-159
AfterUpdate == IF shutdown THEN "done" ELSE "swap"

\* a loop that also consults the latch inside the for loop, and breaks there
CheckShutdown_InForLoop ==
    /\ \/ /\ pc = "check"
          /\ pc' = AfterUpdate
       \/ /\ pc = "poll"
          /\ shutdown
          /\ pc' = "done"
    /\ UNCHANGED <<queue, arrived, consumed, renderer, window_size,
                   screen_size, display_size, keyboard_context, shutdown,
                   scene, next_scene, loops, frame_time, trace, frame>>
    /\ UNCHANGED <<drawVars, sharedVars>>

\* if state.shutdown { break; }, lines 156-159
CheckShutdown ==
    /\ pc = "check"
    /\ pc' = AfterUpdate
    /\ UNCHANGED <<queue, arrived, consumed, renderer, window_size,
                   screen_size, display_size, keyboard_context, shutdown,
                   scene, next_scene, loops, frame_time, trace, frame>>
    /\ UNCHANGED <<drawVars, sharedVars>>

\* a swap that leaves the replaced scene in next_scene (mem::swap without
\* the assignment of None that follows it)
SceneSwap_KeepsOld ==
    /\ pc = "swap"
    /\ IF IsSome(next_scene)
       THEN /\ scene' = next_scene
            /\ next_scene' = scene
            /\ \E result \in Results :
                   /\ trace' = trace \o
                          <<Call("swap", <<>>),
                            Call("init", <<Unwrap(next_scene), result>>)>>
                   /\ pc' = unwrap(result, "prepare")
                   /\ IF result = "Ok"
                      THEN loops' = 0 /\ frame_time' = 0
                      ELSE UNCHANGED <<loops, frame_time>>
       ELSE /\ pc' = "prepare"
            /\ UNCHANGED <<scene, next_scene, loops, frame_time, trace>>
    /\ UNCHANGED <<queue, arrived, consumed, renderer, window_size,
                   screen_size, display_size, keyboard_context, shutdown,
                   frame>>
    /\ UNCHANGED <<drawVars, sharedVars>>

(***************************************************************************)
(* if state.next_scene.is_some() { ... }, lines 161-168.  An Err of        *)
(* scene.init makes unwrap panic before loops and frame_time are reset.    *)
(***************************************************************************)
SceneSwap ==
    /\ pc = "swap"
    /\ IF IsSome(next_scene)
       THEN /\ scene' = next_scene
            /\ next_scene' = None
            /\ \E result \in Results :
                   /\ trace' = trace \o
                          <<Call("swap", <<>>),
                            Call("init", <<Unwrap(next_scene), result>>)>>
                   /\ pc' = unwrap(result, "prepare")
                   /\ IF result = "Ok"
                      THEN loops' = 0 /\ frame_time' = 0
                      ELSE UNCHANGED <<loops, frame_time>>
       ELSE /\ pc' = "prepare"
            /\ UNCHANGED <<scene, next_scene, loops, frame_time, trace>>
    /\ UNCHANGED <<queue, arrived, consumed, renderer, window_size,
                   screen_size, display_size, keyboard_context, shutdown,
                   frame>>
    /\ UNCHANGED <<drawVars, sharedVars>>

(***************************************************************************)
(* RefCell::borrow and RefCell::borrow_mut on refs: a shared borrow is     *)
(* refused while the cell is mutably borrowed, a mutable one while it is   *)
(* borrowed at all; the refusal is a panic.                                *)
(***************************************************************************)
CanBorrow(flag) == flag >= 0
CanBorrowMut(flag) == flag = 0

\* a loop that keeps the Ref of line 170 until the end of the loop body
PrepareFrame_KeepsRef ==
    /\ pc = "prepare"
    /\ pc' = "draw"
    /\ borrow' = borrow + 1
    /\ trace' = Append(trace, Call("prepare_frame", <<>>))
    /\ UNCHANGED <<queue, arrived, consumed, renderer, window_size,
                   screen_size, display_size, keyboard_context, shutdown,
                   scene, next_scene, loops, frame_time, frame>>
    /\ UNCHANGED <<holders, strong, borrow_error, imgui_live>>
    /\ UNCHANGED drawVars

\* imgui_sdl2.prepare_frame(imgui.io_mut(), self.refs.borrow().canvas
\* .window(), ...), line 170: the Ref is a temporary of the statement, so
\* the shared borrow it stands for ends with the statement
PrepareFrame ==
    /\ pc = "prepare"
    /\ IF CanBorrow(borrow)
       THEN /\ pc' = "draw"
            /\ trace' = Append(trace, Call("prepare_frame", <<>>))
            /\ UNCHANGED <<borrow, borrow_error>>
       ELSE /\ pc' = "panicked"
            /\ borrow_error' = "prepare_frame"
            /\ UNCHANGED <<trace, borrow>>
    /\ UNCHANGED <<queue, arrived, consumed, renderer, window_size,
                   screen_size, display_size, keyboard_context, shutdown,
                   scene, next_scene, loops, frame_time, frame>>
    /\ UNCHANGED <<holders, strong, imgui_live>>
    /\ UNCHANGED drawVars

(***************************************************************************)
(* game.draw(ctx).unwrap(), line 171, the last statement of the loop body. *)
(* draw is the game's own: it may move loops and frame_time.  It draws     *)
(* through the renderer and the textures, whose operations borrow refs     *)
(* mutably (lines 265, 272, 280, 296, 327, 367, 515), and it returns once  *)
(* a render_imgui it has called has returned.                              *)
(***************************************************************************)
Draw ==
    /\ pc = "draw"
    /\ imgui_pc \in {"idle", "done"}
    /\ IF CanBorrowMut(borrow)
       THEN /\ \E result \in Results :
                   /\ trace' = Append(trace, Call("draw", <<result>>))
                   /\ pc' = unwrap(result, "poll")
                   /\ IF result = "Ok"
                      THEN /\ frame' = frame + 1
                           /\ loops' \in 0..MaxLoops
                           /\ frame_time' \in 0..MaxFrameTime
                      ELSE UNCHANGED <<frame, loops, frame_time>>
            /\ UNCHANGED borrow_error
       ELSE /\ pc' = "panicked"
            /\ borrow_error' = "draw"
            /\ UNCHANGED <<trace, frame, loops, frame_time>>
    /\ UNCHANGED <<queue, arrived, consumed, renderer, window_size,
                   screen_size, display_size, keyboard_context, shutdown,
                   scene, next_scene>>
    /\ UNCHANGED <<holders, strong, borrow, imgui_live>>
    /\ UNCHANGED drawVars

(***************************************************************************)
(* The frame loop.                                                         *)
(***************************************************************************)
WindowSizes == {<<640, 480>>, <<0, 0>>}

\* the texture, untouched by the frame loop
\* the textures a game creates on one renderer; the native handle of
\* texture id is id, and 0 is the null handle, which stands for the window
TexIds == {1, 2}

\* an SDL2Texture that was not created yet; `under` and created_under
\* record the blend mode of the context when each command was added and
\* when the texture was created
NoTexture ==
    [state |-> "absent", texture |-> None, commands |-> <<>>,
     under |-> <<>>, created_under |-> ""]

\* a call into the driver: which one, on which native handle, the render
\* target and the blend mode it was made with, and whether it succeeded
DriverCall(call, handle, tgt, blend, ok) ==
    [call |-> call, handle |-> handle, target |-> tgt, blend |-> blend,
     ok |-> ok]

\* a call of the backend's interface and what it returned
Returned(op, arg, result) == [op |-> op, arg |-> arg, result |-> result]

\* an Elements command that draws nothing
NoCmd ==
    [count |-> 0, idx_offset |-> 0, vtx_offset |-> 0, idx_buffer |-> <<>>,
     vtx_buffer |-> <<>>, texture_id |-> 0, clip_rect |-> <<0, 0, 0, 0>>]

\* the renderer before any of its operations was called: the context as
\* SDL2EventLoop::new builds it (line 84), drawing to the window
RendIdle ==
    /\ textures = [id \in TexIds |-> NoTexture]
    /\ target = 0
    /\ requested = [blend |-> None, target |-> None]
    /\ released = [id \in TexIds |-> 0]
    /\ returned = Returned("", <<>>, "")
    /\ driver = <<>>

\* render_imgui before it is called
ImguiIdle ==
    /\ imgui_pc = "idle"
    /\ cmd = NoCmd
    /\ idx = 0
    /\ is_rect = FALSE
    /\ clip_rect = None
    /\ emitted = <<>>
    /\ read = {}
    /\ raw_callback = ""

TexIdle ==
    /\ texture = None
    /\ width = 0
    /\ height = 0
    /\ commands = <<>>
    /\ blend_mode = "Blend"
    /\ blits = <<>>
    /\ history = <<>>

\* nothing but the frame loop is running
DrawIdle == TexIdle /\ RendIdle /\ ImguiIdle /\ UploadIdle

Init ==
    /\ pc = "start"
    /\ queue = <<>>
    /\ arrived = <<>>
    /\ consumed = 0
    /\ renderer = FALSE
    /\ window_size \in WindowSizes
    /\ screen_size = <<0, 0>>
    /\ display_size = <<0, 0>>
    /\ keyboard_context = {}
    /\ shutdown = FALSE
    /\ scene = None
    /\ next_scene \in {None, Some("s1")}
    /\ loops = 0
    /\ frame_time = 0
    /\ trace = <<>>
    /\ frame = 0
    /\ SharedIdle(renderer)
    /\ DrawIdle

Next ==
    \/ NewRenderer
    \/ RunStart
    \/ \E e \in LoopEvents : Arrive(e)
    \/ PollEvent
    \/ PollNone
    \/ Update
    \/ CheckShutdown
    \/ SceneSwap
    \/ PrepareFrame
    \/ Draw

Spec == Init /\ [][Next]_vars

(***************************************************************************)
(* run is straight-line code on one thread: once a statement is reached it *)
(* is executed, and the calls it makes into the pump and the game return.  *)
(* So every step of the loop that stays enabled is taken.  Nothing is      *)
(* assumed about the platform queueing events or about new_renderer.       *)
(***************************************************************************)
RunStep ==
    \/ RunStart
    \/ PollEvent
    \/ PollNone
    \/ Update
    \/ CheckShutdown
    \/ SceneSwap
    \/ PrepareFrame
    \/ Draw

\* the window is created with the size the game asks for
InitLive == Init /\ window_size = <<640, 480>>

SpecLive == InitLive /\ [][Next]_vars /\ WF_vars(RunStep)

(***************************************************************************)
(* Properties of the frame loop.                                           *)
(***************************************************************************)
HasOp(t, op) == \E i \in 1..Len(t) : t[i].op = op
CountOp(t, op) == Cardinality({i \in 1..Len(t) : t[i].op = op})

\* the phase of the iteration a call belongs to
Rank(op) ==
    CASE op \in {"poll", "handle_event", "shutdown", "handle_resize",
                 "key_down_event"} -> 1
      [] op = "update" -> 2
      [] op = "swap" -> 3
      [] op = "init" -> 4
      [] op = "prepare_frame" -> 5
      [] op = "draw" -> 6

PhaseOrdered(t) ==
    /\ \A i, j \in 1..Len(t) : i < j => Rank(t[i].op) <= Rank(t[j].op)
    /\ \A op \in {"update", "swap", "init", "prepare_frame", "draw"} :
           CountOp(t, op) <= 1
    /\ \A i \in 1..Len(t) :
           t[i].op = "update" => i > 1 /\ t[i - 1].op = "poll"
    /\ HasOp(t, "swap") => HasOp(t, "update")
    /\ HasOp(t, "prepare_frame") => HasOp(t, "update")
    /\ HasOp(t, "draw") => HasOp(t, "prepare_frame")

\* the pump hands the events out in the order the platform queued them
Fifo ==
    LET n == Len(Handled(trace))
    IN  /\ consumed + n + Len(queue) = Len(arrived)
        /\ Handled(trace) = SubSeq(arrived, consumed + 1, consumed + n)
        /\ queue = SubSeq(arrived, consumed + n + 1, Len(arrived))

\* C1: in every iteration of run the calls come in the order event dispatch
\* (the events in the order they were queued), update, scene swap and init,
\* prepare_frame, draw; each of the later phases runs at most once, none
\* without the ones before it, and the pump is not polled once update of
\* the iteration has been called.
C1_PhaseOrder == PhaseOrdered(trace) /\ Fifo

\* an iteration that dispatched two events, swapped the scene and drew
C1_Witness ==
    /\ trace # <<>>
    /\ Last(trace).op = "draw"
    /\ Len(Handled(trace)) >= 2
    /\ HasOp(trace, "swap")

\* C2, as claimed: run terminates only after the draw of the iteration in
\* which the shutdown was requested.
C2_FrameCompletes ==
    pc = "done" => trace # <<>> /\ Last(trace).op = "draw"

\* C2, amended: the latch is consulted right after update returns, so when
\* run terminates the event dispatch and the update of that iteration have
\* completed (the last call is update, made after the poll that found the
\* queue empty), and the iteration's scene swap, prepare_frame and draw
\* have not run.
C2_UpdateCompletes ==
    pc = "done" =>
        /\ Len(trace) >= 2
        /\ Last(trace).op = "update"
        /\ trace[Len(trace) - 1].op = "poll"
        /\ \A op \in {"swap", "init", "prepare_frame", "draw"} :
               ~HasOp(trace, op)

\* run has terminated in an iteration in which a Quit event was dispatched
C2_Witness ==
    /\ pc = "done"
    /\ HasOp(trace, "shutdown")
    /\ frame >= 1

\* the step dispatches the event at the head of the queue
Dispatches(e) ==
    /\ pc = "poll"
    /\ queue # <<>>
    /\ Head(queue) = e
    /\ trace' # trace

\* C3: the dispatch of a Quit event sets the latch and leaves run in the
\* for loop with the rest of the queue still to be polled; the for loop is
\* left only when the queue is empty; update is then called once, and with
\* the latch set run exits from there: no scene swap, init, prepare_frame
\* or draw follows in that iteration, whatever next_scene holds.  run never
\* exits while the latch is clear.
C3_State ==
    /\ pc = "done" => shutdown /\ CountOp(trace, "update") = 1
    /\ pc \in {"check", "done"} /\ shutdown =>
           \A op \in {"swap", "init", "prepare_frame", "draw"} :
               ~HasOp(trace, op)
    /\ pc = "swap" => ~shutdown
    /\ HasOp(trace, "shutdown") =>
           \A op \in {"swap", "init", "prepare_frame", "draw"} :
               ~HasOp(trace, op)

C3_Step ==
    /\ Dispatches(Quit) =>
           pc' = "poll" /\ queue' = Tail(queue) /\ shutdown'
    /\ pc = "poll" /\ pc' # "poll" => queue = <<>> /\ pc' = "update"
    /\ pc = "check" /\ shutdown => pc' \in {"check", "done"}
    /\ pc # "done" /\ pc' = "done" => pc = "check" /\ shutdown

\* C3: Quit latches shutdown, and run leaves the loop only at the test that
\* follows update, with the latch set; prepare_frame and draw do not run then.
C3_QuitExits == []C3_State /\ [][C3_Step]_vars

\* run has exited after a Quit event that was followed by another event,
\* with a scene waiting in next_scene
C3_Witness ==
    /\ pc = "done"
    /\ IsSome(next_scene)
    /\ \E i \in 1..Len(trace) :
           /\ trace[i].op = "shutdown"
           /\ \E j \in (i + 1)..Len(trace) : trace[j].op = "handle_event"

\* C4: a scene swap, when next_scene is present after update and the latch
\* is clear, makes the former next_scene the current scene, empties
\* next_scene, calls init on the new scene once and, init having returned,
\* sets loops and frame_time to 0, all before prepare_frame and draw of the
\* iteration; with next_scene absent the loop calls no init and leaves
\* scene, loops and frame_time as they are.
C4_State ==
    /\ CountOp(trace, "init") <= 1
    /\ pc \in {"prepare", "draw"} =>
           IF HasOp(trace, "swap")
           THEN /\ \E i \in 1..Len(trace) :
                       trace[i].op = "init" /\ scene = Some(trace[i].arg[1])
                /\ next_scene = None
                /\ loops = 0
                /\ frame_time = 0
           ELSE ~HasOp(trace, "init")

C4_Step ==
    pc = "swap" /\ pc' = "prepare" =>
        IF IsSome(next_scene)
        THEN /\ scene' = next_scene
             /\ next_scene' = None
             /\ loops' = 0
             /\ frame_time' = 0
             /\ trace' = trace \o
                    <<Call("swap", <<>>),
                      Call("init", <<Unwrap(next_scene), "Ok">>)>>
        ELSE UNCHANGED <<scene, next_scene, loops, frame_time, trace>>

SeqsUpTo(S, n) == UNION {[1..k -> S] : k \in 1..n}

InitDispatch ==
    /\ pc = "start"
    /\ \/ queue \in SeqsUpTo(WindowEvents, MaxDispatch - 1)
       \/ \E c \in ScancodeOptions :
              queue \in SeqsUpTo(KeyEvents({c}), MaxDispatch)
    /\ arrived = queue
    /\ consumed = 0
    /\ renderer = TRUE
    /\ window_size \in WindowSizes
    /\ screen_size = <<0, 0>>
    /\ display_size = <<0, 0>>
    /\ keyboard_context = {}
    /\ shutdown = FALSE
    /\ scene = None
    /\ next_scene = None
    /\ loops = 0
    /\ frame_time = 0
    /\ trace = <<>>
    /\ frame = 0
    /\ SharedIdle(renderer)
    /\ DrawIdle

NextDispatch ==
    \/ RunStart
    \/ PollEvent
    \/ PollNone

SpecDispatch == InitDispatch /\ [][NextDispatch]_vars

(***************************************************************************)
(* Event dispatch for two keys: run is called with the key events of any   *)
(* two scancodes queued, the first key going down, then the second going   *)
(* down or up, then possibly the first going up.                           *)
(***************************************************************************)
KeyPairQueues(a, b) ==
    {<<KeyDown(a, FALSE), KeyDown(b, FALSE)>>,
     <<KeyDown(a, FALSE), KeyUp(b)>>,
     <<KeyDown(a, FALSE), KeyDown(b, FALSE), KeyUp(a)>>}

InitPairs ==
    /\ pc = "start"
    /\ \E a \in ScancodeOptions, b \in ScancodeOptions :
           queue \in KeyPairQueues(a, b)
    /\ arrived = queue
    /\ consumed = 0
    /\ renderer = TRUE
    /\ window_size = <<640, 480>>
    /\ screen_size = <<0, 0>>
    /\ display_size = <<0, 0>>
    /\ keyboard_context = {}
    /\ shutdown = FALSE
    /\ scene = None
    /\ next_scene = None
    /\ loops = 0
    /\ frame_time = 0
    /\ trace = <<>>
    /\ frame = 0
    /\ SharedIdle(renderer)
    /\ DrawIdle

SpecPairs == InitPairs /\ [][NextDispatch]_vars

(***************************************************************************)
(* SDL2Texture and the renderer state its draw reads.                      *)
(*                                                                         *)
(* Coordinates are f32 values; the model holds them in half pixels (the    *)
(* integer n stands for n / 2), so that round() is not the identity.       *)
(***************************************************************************)
\* f32::round of n / 2: to the nearest integer, halves away from zero
Round(n) == IF n >= 0 THEN (n + 1) \div 2 ELSE 0 - ((1 - n) \div 2)

\* the cast `as u32` of a rounded f32: negative values become 0
AsU32(x) == IF x < 0 THEN 0 ELSE x

Rect(left, top, right, bottom) ==
    [left |-> left, top |-> top, right |-> right, bottom |-> bottom]

\* sdl2::rect::Rect::new(r.left.round() as i32, r.top.round() as i32,
\*                       r.width().round() as u32, r.height().round() as u32)
SdlRect(r) ==
    <<Round(r.left), Round(r.top),
      AsU32(Round(r.right - r.left)), AsU32(Round(r.bottom - r.top))>>

\* SpriteBatchCommand; color is what color.to_rgba() gives
DrawRect(src, dest) ==
    [kind |-> "DrawRect", src |-> src, dest |-> dest, color |-> <<0, 0, 0, 0>>]
DrawRectTinted(src, dest, color) ==
    [kind |-> "DrawRectTinted", src |-> src, dest |-> dest, color |-> color]

\* the commands the game adds; add takes any SpriteBatchCommand, the src of
\* the last one reaches beyond the texture on the left and on the right
Commands ==
    {DrawRect(Rect(0, 0, 32, 32), Rect(21, 20, 53, 52)),
     DrawRectTinted(Rect(0, 0, 32, 32), Rect(20, 20, 52, 52),
                    <<0, 255, 0, 128>>),
     DrawRect(Rect(-2, 0, 40, 32), Rect(20, 20, 62, 52))}

\* the sizes textures are created with
TexSizes == {<<16, 16>>}

BlendModes == {"Alpha", "Add", "Multiply"}

\* a mapping that takes Multiply to the additive mode
NativeBlend_MultiplyAsAdd(blend) ==
    CASE blend = "Add" -> "Add"
      [] blend = "Alpha" -> "Blend"
      [] blend = "Multiply" -> "Add"

\* match blend { ... }, lines 329-333
NativeBlend(blend) ==
    CASE blend = "Add" -> "Add"
      [] blend = "Alpha" -> "Blend"
      [] blend = "Multiply" -> "Mod"

\* one arm of the match in draw, lines 518-538: the modulation and blend
\* set on the texture and the rectangles handed to canvas.copy
Blit(command, mode, at, ok) ==
    [cmd |-> command,
     color |-> IF command.kind = "DrawRect" THEN <<255, 255, 255>>
               ELSE <<command.color[1], command.color[2], command.color[3]>>,
     alpha |-> IF command.kind = "DrawRect" THEN 255 ELSE command.color[4],
     blend |-> mode,
     src |-> SdlRect(command.src),
     dest |-> SdlRect(command.dest),
     at |-> at,
     ok |-> ok]

\* a loop that notes the failed copy and goes on with the commands after it
DrawBlits_GoesOn(cmds, mode, failAt, at) ==
    [i \in 1..Len(cmds) |-> Blit(cmds[i], mode, at, i # failAt)]

\* the canvas.copy calls of `for command in self.commands.iter()`, lines
\* 516-540, when the copy of command failAt fails (0: none fails): the
\* error is returned at once, the commands after it are not reached
DrawBlits(cmds, mode, failAt, at) ==
    LET n == IF failAt = 0 THEN Len(cmds) ELSE failAt
    IN  [i \in 1..n |-> Blit(cmds[i], mode, at, i # failAt)]

\* an add that puts the command in front of the buffer
add_AtFront(cmds, command) == <<command>> \o cmds

\* self.commands.push(command), line 504
add(cmds, command) == Append(cmds, command)

\* self.commands.clear(), line 508
clear(cmds) == <<>>

\* is the rectangle r, in half pixels, within a texture of w x h pixels
InTexture(r, w, h) ==
    /\ 0 <= r.left /\ r.left <= r.right /\ r.right <= 2 * w
    /\ 0 <= r.top /\ r.top <= r.bottom /\ r.bottom <= 2 * h

\* an add that drops a command whose src is not within the texture
TextureAdd_ChecksSrc(command) ==
    /\ Len(history) < MaxOps
    /\ commands' = IF InTexture(command.src, width, height)
                   THEN add(commands, command) ELSE commands
    /\ history' = Append(history, [op |-> "add", arg |-> <<command>>])
    /\ UNCHANGED <<texture, width, height, blend_mode, blits>>
    /\ UNCHANGED <<loopVars, rendVars, imguiVars, sharedVars, uploadVars>>

\* SDL2Texture::add, lines 503-505
TextureAdd(command) ==
    /\ Len(history) < MaxOps
    /\ commands' = add(commands, command)
    /\ history' = Append(history, [op |-> "add", arg |-> <<command>>])
    /\ UNCHANGED <<texture, width, height, blend_mode, blits>>
    /\ UNCHANGED <<loopVars, rendVars, imguiVars, sharedVars, uploadVars>>

\* SDL2Texture::clear, lines 507-509
TextureClear ==
    /\ Len(history) < MaxOps
    /\ commands' = clear(commands)
    /\ history' = Append(history, [op |-> "clear", arg |-> <<>>])
    /\ UNCHANGED <<texture, width, height, blend_mode, blits>>
    /\ UNCHANGED <<loopVars, rendVars, imguiVars, sharedVars, uploadVars>>

\* the commands draw iterates over: none when self.texture is None (line
\* 513), self.commands otherwise
BlitCommands == IF IsSome(texture) THEN commands ELSE <<>>

\* a draw that empties the buffer once it has flushed it
TextureDraw_Clears ==
    /\ Len(history) < MaxOps
    /\ \E failAt \in 0..(IF IsSome(texture) THEN Len(commands) ELSE 0) :
           /\ blits' = blits \o DrawBlits(BlitCommands, blend_mode, failAt,
                                          Len(history) + 1)
           /\ history' = Append(history,
                                [op |-> "draw", arg |-> <<failAt = 0>>])
           /\ commands' = IF failAt = 0 THEN <<>> ELSE commands
    /\ UNCHANGED <<texture, width, height, blend_mode>>
    /\ UNCHANGED <<loopVars, rendVars, imguiVars, sharedVars, uploadVars>>

\* SDL2Texture::draw, lines 511-545: it returns Ok when no copy fails (a
\* texture without its handle copies nothing) and the RenderError of the
\* first copy that fails
TextureDraw ==
    /\ Len(history) < MaxOps
    /\ \E failAt \in 0..(IF IsSome(texture) THEN Len(commands) ELSE 0) :
           /\ blits' = blits \o DrawBlits(BlitCommands, blend_mode, failAt,
                                          Len(history) + 1)
           /\ history' = Append(history,
                                [op |-> "draw", arg |-> <<failAt = 0>>])
    /\ UNCHANGED <<texture, width, height, commands, blend_mode>>
    /\ UNCHANGED <<loopVars, rendVars, imguiVars, sharedVars, uploadVars>>

\* SDL2Renderer::set_blend_mode, lines 326-336
SetBlendMode(blend) ==
    /\ Len(history) < MaxOps
    /\ blend_mode' = NativeBlend(blend)
    /\ history' = Append(history, [op |-> "set_blend_mode", arg |-> <<blend>>])
    /\ UNCHANGED <<texture, width, height, commands, blits>>
    /\ UNCHANGED <<loopVars, rendVars, imguiVars, sharedVars, uploadVars>>

\* the frame loop, untouched by the texture
LoopIdle ==
    /\ pc = "start"
    /\ queue = <<>>
    /\ arrived = <<>>
    /\ consumed = 0
    /\ renderer = TRUE
    /\ window_size = <<640, 480>>
    /\ screen_size = <<0, 0>>
    /\ display_size = <<0, 0>>
    /\ keyboard_context = {}
    /\ shutdown = FALSE
    /\ scene = None
    /\ next_scene = None
    /\ loops = 0
    /\ frame_time = 0
    /\ trace = <<>>
    /\ frame = 0
    /\ SharedIdle(renderer)

\* a texture as create_texture and create_texture_mutable return it (lines
\* 286-292, 317-323), on a context as SDL2EventLoop::new builds it (line 84)
InitTexture ==
    /\ texture = Some("texture")
    /\ \E size \in TexSizes : width = size[1] /\ height = size[2]
    /\ commands = <<>>
    /\ blend_mode = "Blend"
    /\ blits = <<>>
    /\ history = <<>>
    /\ LoopIdle
    /\ RendIdle
    /\ ImguiIdle
    /\ UploadIdle

NextTexture ==
    \/ \E command \in Commands : TextureAdd(command)
    \/ TextureClear
    \/ TextureDraw
    \/ \E blend \in BlendModes : SetBlendMode(blend)

SpecTexture == InitTexture /\ [][NextTexture]_vars

(***************************************************************************)
(* The renderer and the textures it creates.  All of them share one       *)
(* SDL2Context (refs), so one blend_mode and one render target.           *)
(***************************************************************************)
MaxBatch == 1

\* the command the game batches on these textures
BatchCommand == DrawRect(Rect(0, 0, 32, 32), Rect(20, 20, 52, 52))

LiveIds == {id \in TexIds : textures[id].state = "live"}

\* the SDL2Renderer, and with it the font texture of imgui_textures, has
\* not been dropped
RendererAlive == RendererHolders \subseteq holders

\* SDL2Texture { refs, texture: Some(texture), width, height, commands:
\* vec![] }, lines 286-292 and 317-323
NewTexture(id) ==
    [state |-> "live", texture |-> Some(id), commands |-> <<>>,
     under |-> <<>>, created_under |-> blend_mode]

\* SDL2Renderer::create_texture (lines 295-324) and create_texture_mutable
\* (lines 279-293): the driver's refusal is returned as RenderError and no
\* SDL2Texture is built
CreateTexture(id, op) ==
    /\ RendererAlive
    /\ textures[id].state = "absent"
    /\ \E ok \in BOOLEAN :
           /\ textures' = IF ok THEN [textures EXCEPT ![id] = NewTexture(id)]
                          ELSE textures
           /\ returned' = Returned(op, <<id>>,
                                   IF ok THEN "Ok" ELSE "RenderError")
           /\ driver' = <<DriverCall("create", id, target, "", ok)>>
           /\ IF ok
              THEN /\ holders' = holders \cup {Holder("texture", id)}
                   /\ strong' = Rc_clone(strong)
              ELSE UNCHANGED <<holders, strong>>
    /\ UNCHANGED <<target, requested, released, blend_mode>>
    /\ UNCHANGED <<texture, width, height, commands, blits, history>>
    /\ UNCHANGED <<loopVars, imguiVars, uploadVars>>
    /\ UNCHANGED <<borrow, borrow_error, imgui_live>>

\* SDL2Texture::add on a texture of the renderer, lines 503-505
BatchAdd(id) ==
    /\ id \in LiveIds
    /\ Len(textures[id].commands) < MaxBatch
    /\ textures' = [textures EXCEPT
                       ![id].commands = add(@, BatchCommand),
                       ![id].under = Append(@, blend_mode)]
    /\ returned' = Returned("add", <<id>>, "")
    /\ driver' = <<>>
    /\ UNCHANGED <<target, requested, released, blend_mode>>
    /\ UNCHANGED <<texture, width, height, commands, blits, history>>
    /\ UNCHANGED <<loopVars, imguiVars, uploadVars>>
    /\ UNCHANGED sharedVars

\* SDL2Texture::clear on a texture of the renderer, lines 507-509
BatchClear(id) ==
    /\ id \in LiveIds
    /\ textures' = [textures EXCEPT
                       ![id].commands = clear(@),
                       ![id].under = <<>>]
    /\ returned' = Returned("clear_batch", <<id>>, "")
    /\ driver' = <<>>
    /\ UNCHANGED <<target, requested, released, blend_mode>>
    /\ UNCHANGED <<texture, width, height, commands, blits, history>>
    /\ UNCHANGED <<loopVars, imguiVars, uploadVars>>
    /\ UNCHANGED sharedVars

\* the canvas.copy calls of one draw as the driver sees them: on the
\* texture's handle, into the current render target
Copies(t, failAt) ==
    LET b == DrawBlits(IF IsSome(t.texture) THEN t.commands ELSE <<>>,
                       blend_mode, failAt, 0)
    IN  [k \in 1..Len(b) |->
            DriverCall("copy", Unwrap(t.texture), target, b[k].blend, b[k].ok)]

\* SDL2Texture::draw on a texture of the renderer, lines 511-545
BatchDraw(id) ==
    /\ id \in LiveIds
    /\ \E failAt \in 0..(IF IsSome(textures[id].texture)
                         THEN Len(textures[id].commands) ELSE 0) :
           /\ driver' = Copies(textures[id], failAt)
           /\ returned' = Returned("draw", <<id>>,
                                   IF failAt = 0 THEN "Ok" ELSE "RenderError")
    /\ UNCHANGED <<textures, target, requested, released, blend_mode>>
    /\ UNCHANGED <<texture, width, height, commands, blits, history>>
    /\ UNCHANGED <<loopVars, imguiVars, uploadVars>>
    /\ UNCHANGED sharedVars

\* SDL2Renderer::clear, lines 264-269: set_draw_color and clear return
\* nothing
RendererClear ==
    /\ RendererAlive
    /\ driver' = <<DriverCall("clear", 0, target, "", TRUE)>>
    /\ returned' = Returned("clear", <<>>, "")
    /\ UNCHANGED <<textures, target, requested, released, blend_mode>>
    /\ UNCHANGED <<texture, width, height, commands, blits, history>>
    /\ UNCHANGED <<loopVars, imguiVars, uploadVars>>
    /\ UNCHANGED sharedVars

\* SDL2Renderer::set_blend_mode on the shared context, lines 326-336
RendererSetBlendMode(blend) ==
    /\ RendererAlive
    /\ blend_mode' = NativeBlend(blend)
    /\ requested' = [requested EXCEPT !.blend = Some(blend)]
    /\ returned' = Returned("set_blend_mode", <<blend>>, "Ok")
    /\ driver' = <<>>
    /\ UNCHANGED <<textures, target, released>>
    /\ UNCHANGED <<texture, width, height, commands, blits, history>>
    /\ UNCHANGED <<loopVars, imguiVars, uploadVars>>
    /\ UNCHANGED sharedVars

\* the raw texture set_render_target hands to set_raw_target, lines
\* 342-355: target.raw() of a texture that holds its handle, null otherwise
RawTarget(arg) ==
    IF IsSome(arg) /\ IsSome(textures[Unwrap(arg)].texture)
    THEN Unwrap(textures[Unwrap(arg)].texture)
    ELSE 0

\* what set_render_target returns, line 357: the GameResult of
\* set_raw_target (lines 347, 349, 353) is dropped and Ok(()) follows
set_render_target(ok) == "Ok"

\* SDL2Renderer::set_render_target, lines 338-358, with set_raw_target,
\* lines 247-253: SDL_SetRenderTarget switches the target and returns 0, or
\* leaves it and returns an error code
SetRenderTarget(arg) ==
    /\ RendererAlive
    /\ IsSome(arg) => Unwrap(arg) \in LiveIds
    /\ \E ok \in BOOLEAN :
           /\ target' = IF ok THEN RawTarget(arg) ELSE target
           /\ driver' = <<DriverCall("set_target", RawTarget(arg), target,
                                     "", ok)>>
           /\ returned' = Returned("set_render_target", arg,
                                   set_render_target(ok))
    /\ requested' = [requested EXCEPT !.target = arg]
    /\ UNCHANGED <<textures, released, blend_mode>>
    /\ UNCHANGED <<texture, width, height, commands, blits, history>>
    /\ UNCHANGED <<loopVars, imguiVars, uploadVars>>
    /\ UNCHANGED sharedVars

\* a drop that forgets the handle without destroying it
drop_Leaks(slot) == [texture |-> None, destroyed |-> <<>>]

\* Drop for SDL2Texture, lines 549-556: the slot is swapped for None and
\* the handle that was in it, if any, is destroyed
drop(slot) ==
    [texture |-> None,
     destroyed |-> IF IsSome(slot) THEN <<Unwrap(slot)>> ELSE <<>>]

\* dropping a texture of the renderer, lines 548-557.  The driver's
\* SDL_DestroyTexture puts the render target back to the window when the
\* texture destroyed is the current target.
TextureDrop(id) ==
    /\ id \in LiveIds
    /\ LET d == drop(textures[id].texture)
       IN  /\ textures' = [textures EXCEPT ![id].state = "dropped",
                                           ![id].texture = d.texture]
           /\ released' = [h \in TexIds |->
                              released[h] +
                              Len(SelectSeq(d.destroyed, LAMBDA x : x = h))]
           /\ driver' = [k \in 1..Len(d.destroyed) |->
                            DriverCall("destroy", d.destroyed[k], target,
                                       "", TRUE)]
           /\ target' = IF \E k \in 1..Len(d.destroyed) :
                               d.destroyed[k] = target
                        THEN 0 ELSE target
    /\ returned' = Returned("drop", <<id>>, "")
    /\ UNCHANGED <<requested, blend_mode>>
    /\ UNCHANGED <<texture, width, height, commands, blits, history>>
    /\ UNCHANGED <<loopVars, imguiVars, uploadVars>>
    /\ holders' = holders \ {Holder("texture", id)}
    /\ strong' = Rc_drop(strong)
    /\ UNCHANGED <<borrow, borrow_error, imgui_live>>

\* the native handle of the font texture of imgui_textures
FontHandle == Cardinality(TexIds) + 1

\* the renderer is dropped: its fields go, refs (line 181) and the font
\* texture of imgui_textures (line 184), whose Drop destroys its handle
\* (lines 548-557) before its own refs goes
RendererDrop ==
    /\ RendererAlive
    /\ holders' = holders \ RendererHolders
    /\ strong' = Rc_drop(Rc_drop(strong))
    /\ driver' = <<DriverCall("destroy", FontHandle, target, "", TRUE)>>
    /\ returned' = Returned("drop_renderer", <<>>, "")
    /\ UNCHANGED <<textures, target, requested, released, blend_mode>>
    /\ UNCHANGED <<texture, width, height, commands, blits, history>>
    /\ UNCHANGED <<loopVars, imguiVars, uploadVars>>
    /\ UNCHANGED <<borrow, borrow_error, imgui_live>>

\* the event loop is dropped: its refs (line 50) goes with it
EventLoopDrop ==
    /\ EventLoopHolder \in holders
    /\ holders' = holders \ {EventLoopHolder}
    /\ strong' = Rc_drop(strong)
    /\ driver' = <<>>
    /\ returned' = Returned("drop_event_loop", <<>>, "")
    /\ UNCHANGED <<textures, target, requested, released, blend_mode>>
    /\ UNCHANGED <<texture, width, height, commands, blits, history>>
    /\ UNCHANGED <<loopVars, imguiVars, uploadVars>>
    /\ UNCHANGED <<borrow, borrow_error, imgui_live>>

InitRenderer ==
    /\ LoopIdle
    /\ TexIdle
    /\ RendIdle
    /\ ImguiIdle
    /\ UploadIdle

\* the batching and blending calls of a game
NextBlend ==
    \/ \E id \in TexIds :
           \E op \in {"create_texture", "create_texture_mutable"} :
               CreateTexture(id, op)
    \/ \E id \in TexIds : BatchAdd(id)
    \/ \E id \in TexIds : BatchClear(id)
    \/ \E id \in TexIds : BatchDraw(id)
    \/ \E blend \in BlendModes : RendererSetBlendMode(blend)

SpecBlend == InitRenderer /\ [][NextBlend]_vars

\* the batching, render target and destruction calls of a game
NextRenderer ==
    \/ \E id \in TexIds :
           \E op \in {"create_texture", "create_texture_mutable"} :
               CreateTexture(id, op)
    \/ \E id \in TexIds : BatchAdd(id)
    \/ \E id \in TexIds : BatchClear(id)
    \/ \E id \in TexIds : BatchDraw(id)
    \/ RendererClear
    \/ \E arg \in {None} \cup {Some(id) : id \in TexIds} : SetRenderTarget(arg)
    \/ \E id \in TexIds : TextureDrop(id)
    \/ RendererDrop
    \/ EventLoopDrop

SpecRenderer == InitRenderer /\ [][NextRenderer]_vars

(***************************************************************************)
(* SDL2Renderer::render_imgui on one Elements command.  Positions are in  *)
(* half pixels and texture coordinates in quarters of the texture, so      *)
(* that the casts to integers are not the identity.                        *)
(***************************************************************************)
MaxTriangles == 3

\* `x as i32` of the f32 n / d: the fraction is cut off, towards zero
Trunc(n, d) == IF n >= 0 THEN n \div d ELSE 0 - ((0 - n) \div d)

\* `x as i16`: as above, and the value saturates
AsI16(x) == IF x < -32768 THEN -32768 ELSE IF x > 32767 THEN 32767 ELSE x

\* min3, lines 255-257
min3(x, y, z) == IF x < y /\ x < z THEN x ELSE IF y < z THEN y ELSE z

\* a maximum that leaves out its third argument
max3_NoThird(x, y, z) == IF x > y THEN x ELSE y

\* max3, lines 259-261
max3(x, y, z) == IF x > y /\ x > z THEN x ELSE IF y > z THEN y ELSE z

\* imgui::DrawVert: pos, uv and col
Vert(x, y, u, v, col) == [pos |-> <<x, y>>, uv |-> <<u, v>>, col |-> col]

\* the font texture SDL2Renderer::new registers (lines 219-225) under the
\* id of the font atlas, and an id nothing was registered under
FontTexId == 1
OtherTexId == 2
FontTexture == [width |-> 30, height |-> 32]

\* self.imgui_textures.get_mut(&texture_id), line 437
imgui_textures(texture_id) ==
    IF texture_id = FontTexId THEN Some(FontTexture) ELSE None

\* the corners of a panel of 4 by 2 pixels whose top left is at pixel
\* (2, 1), each with its own colour, textured with the whole font texture
CornerA == Vert(4, 2, 0, 0, <<255, 0, 0, 255>>)
CornerB == Vert(12, 2, 4, 0, <<0, 255, 0, 128>>)
CornerC == Vert(12, 6, 4, 4, <<0, 0, 255, 64>>)
CornerD == Vert(4, 6, 0, 4, <<255, 255, 0, 32>>)

\* the same panel half a pixel further right and down, textured with the
\* right three quarters of the font texture
HalfA == Vert(5, 3, 1, 0, <<255, 0, 0, 255>>)
HalfB == Vert(13, 3, 4, 0, <<0, 255, 0, 128>>)
HalfC == Vert(13, 7, 4, 4, <<0, 0, 255, 64>>)
HalfD == Vert(5, 7, 1, 4, <<255, 255, 0, 32>>)

\* the middle of the panel's lower edge
MidCD == Vert(8, 6, 2, 4, <<255, 255, 255, 255>>)

\* the triangles the UI library emits: the two halves of the panel, the
\* half across the other diagonal, the halves of the shifted panel, and a
\* triangle with a vertex that is no corner
Triangles ==
    {<<CornerA, CornerB, CornerC>>, <<CornerA, CornerC, CornerD>>,
     <<CornerA, CornerB, CornerD>>,
     <<HalfA, HalfB, HalfC>>, <<HalfA, HalfC, HalfD>>,
     <<CornerA, CornerB, MidCD>>}

RECURSIVE Flatten(_)
Flatten(ts) == IF ts = <<>> THEN <<>> ELSE Head(ts) \o Flatten(Tail(ts))

\* DrawCmd::Elements { count, cmd_params } over a draw list that holds the
\* given triangles: the command's indices and vertices start at offset 1
\* of the buffers, and indices of a later command follow its own
Elements(ts, texture_id) ==
    [count |-> 3 * Len(ts),
     idx_offset |-> 1,
     vtx_offset |-> 1,
     idx_buffer |-> <<0>> \o [k \in 1..(3 * Len(ts)) |-> k - 1] \o <<0, 1, 2>>,
     vtx_buffer |-> <<MidCD>> \o Flatten(ts),
     texture_id |-> texture_id,
     clip_rect |-> <<1, 1, 41, 31>>]

\* draw_list.vtx_buffer()[vtx_offset + idx_buffer[idx_offset + j] as usize],
\* lines 394-396 and 407-409 (the buffers are indexed from 0)
Vertex(c, j) ==
    c.vtx_buffer[c.vtx_offset + c.idx_buffer[c.idx_offset + j + 1] + 1]

\* a check that looks at the first triangle only
IsRect_FirstTriangle(c, i) ==
    LET v(j) == Vertex(c, i + j - 1).pos
        min == <<min3(v(1)[1], v(2)[1], v(3)[1]),
                 min3(v(1)[2], v(2)[2], v(3)[2])>>
        max == <<max3(v(1)[1], v(2)[1], v(3)[1]),
                 max3(v(1)[2], v(2)[2], v(3)[2])>>
    IN  \A j \in 1..3 :
            /\ v(j)[1] = min[1] \/ v(j)[1] = max[1]
            /\ v(j)[2] = min[2] \/ v(j)[2] = max[2]

\* is_rect as lines 411-427 compute it for the triangle at i and the one
\* after it: min and max are taken over v1, v2, v3
IsRect(c, i) ==
    LET v(j) == Vertex(c, i + j - 1).pos
        min == <<min3(v(1)[1], v(2)[1], v(3)[1]),
                 min3(v(1)[2], v(2)[2], v(3)[2])>>
        max == <<max3(v(1)[1], v(2)[1], v(3)[1]),
                 max3(v(1)[2], v(2)[2], v(3)[2])>>
    IN  \A j \in 1..6 :
            /\ v(j)[1] = min[1] \/ v(j)[1] = max[1]
            /\ v(j)[2] = min[2] \/ v(j)[2] = max[2]

\* a primitive handed to the driver: the arguments of Rect::new for src
\* and dest and the modulation (a blit), or the vertex arrays and the
\* colour (a filled triangle); i is the triangle it was drawn for
Primitive(kind, i, src, dest, vert_x, vert_y, col, clip, ok) ==
    [kind |-> kind, i |-> i, src |-> src, dest |-> dest,
     vert_x |-> vert_x, vert_y |-> vert_y, col |-> col, clip |-> clip,
     ok |-> ok]

\* the blit of lines 430-433 and 440-453
RectBlit(c, i, surf, clip, ok) ==
    LET v(j) == Vertex(c, i + j - 1)
        min == <<min3(v(1).pos[1], v(2).pos[1], v(3).pos[1]),
                 min3(v(1).pos[2], v(2).pos[2], v(3).pos[2])>>
        max == <<max3(v(1).pos[1], v(2).pos[1], v(3).pos[1]),
                 max3(v(1).pos[2], v(2).pos[2], v(3).pos[2])>>
        tex_pos == <<min3(v(1).uv[1], v(2).uv[1], v(3).uv[1]),
                     min3(v(1).uv[2], v(2).uv[2], v(3).uv[2]),
                     max3(v(1).uv[1], v(2).uv[1], v(3).uv[1]),
                     max3(v(1).uv[2], v(2).uv[2], v(3).uv[2])>>
    IN  Primitive("blit", i,
                  <<Trunc(tex_pos[1] * surf.width, 4),
                    Trunc(tex_pos[2] * surf.height, 4),
                    AsU32(Trunc((tex_pos[3] - tex_pos[1]) * surf.width, 4)),
                    AsU32(Trunc((tex_pos[4] - tex_pos[2]) * surf.height, 4))>>,
                  <<Trunc(min[1], 2), Trunc(min[2], 2),
                    AsU32(Trunc(max[1] - min[1], 2)),
                    AsU32(Trunc(max[2] - min[2], 2))>>,
                  <<>>, <<>>, v(1).col, clip, ok)

\* a fill in the colour of the triangle's last vertex
FilledPolygon_LastColour(c, i, clip, ok) ==
    LET v(j) == Vertex(c, i + j - 1)
    IN  Primitive("fill", i, <<0, 0, 0, 0>>, <<0, 0, 0, 0>>,
                  [j \in 1..3 |-> AsI16(Trunc(v(j).pos[1] - 1, 2))],
                  [j \in 1..3 |-> AsI16(Trunc(v(j).pos[2] - 1, 2))],
                  v(3).col, clip, ok)

\* filledPolygonRGBA over vert_x and vert_y of lines 398-403, lines 455-464
FilledPolygon(c, i, clip, ok) ==
    LET v(j) == Vertex(c, i + j - 1)
    IN  Primitive("fill", i, <<0, 0, 0, 0>>, <<0, 0, 0, 0>>,
                  [j \in 1..3 |-> AsI16(Trunc(v(j).pos[1] - 1, 2))],
                  [j \in 1..3 |-> AsI16(Trunc(v(j).pos[2] - 1, 2))],
                  v(1).col, clip, ok)

\* Rect::new(clip_rect[0] as i32, clip_rect[1] as i32, (clip_rect[2] -
\* clip_rect[0]) as u32, (clip_rect[3] - clip_rect[1]) as u32), lines 373-378
ClipOf(c) ==
    <<Trunc(c.clip_rect[1], 2), Trunc(c.clip_rect[2], 2),
      AsU32(Trunc(c.clip_rect[3] - c.clip_rect[1], 2)),
      AsU32(Trunc(c.clip_rect[4] - c.clip_rect[2], 2))>>

\* what the callback of a RawCallback command may call: nothing of the
\* backend, or an operation of the renderer or of a texture
BackendCalls == {"clear", "draw"}
Callbacks == {"none"} \cup BackendCalls

\* render_imgui is entered: let mut refs = self.refs.borrow_mut(), line
\* 367, a RefMut that lives until render_imgui returns.  The game calls
\* render_imgui from its draw, or with no frame loop running.
RenderImgui ==
    /\ imgui_pc = "idle"
    /\ pc \in {"start", "draw"}
    /\ IF CanBorrowMut(borrow)
       THEN /\ borrow' = -1
            /\ imgui_pc' = (IF raw_callback = "" THEN "elements"
                            ELSE "callback")
            /\ UNCHANGED borrow_error
       ELSE /\ imgui_pc' = "panicked"
            /\ borrow_error' = "render_imgui"
            /\ UNCHANGED borrow
    /\ UNCHANGED <<cmd, idx, is_rect, clip_rect, emitted, read, raw_callback>>
    /\ UNCHANGED <<loopVars, texVars, rendVars, uploadVars>>
    /\ UNCHANGED <<holders, strong, imgui_live>>

\* DrawCmd::RawCallback { callback, raw_cmd } => callback(draw_list.raw(),
\* raw_cmd), lines 473-475, with the RefMut of line 367 alive: an operation
\* of the renderer or of a texture that the callback calls does
\* self.refs.borrow_mut() (lines 265, 515)
ImguiRawCallback ==
    /\ imgui_pc = "callback"
    /\ IF raw_callback \in BackendCalls /\ ~CanBorrowMut(borrow)
       THEN /\ imgui_pc' = "panicked"
            /\ borrow_error' = "RawCallback"
       ELSE /\ imgui_pc' = "elements"
            /\ UNCHANGED borrow_error
    /\ UNCHANGED <<cmd, idx, is_rect, clip_rect, emitted, read, raw_callback>>
    /\ UNCHANGED <<loopVars, texVars, rendVars, uploadVars>>
    /\ UNCHANGED <<holders, strong, borrow, imgui_live>>

\* the match arm for DrawCmd::Elements is entered, lines 372-386
ImguiBegin ==
    /\ imgui_pc = "elements"
    /\ imgui_pc' = "loop"
    /\ clip_rect' = Some(ClipOf(cmd))
    /\ idx' = 0
    /\ is_rect' = FALSE
    /\ UNCHANGED <<cmd, emitted, read, raw_callback>>
    /\ UNCHANGED <<loopVars, texVars, rendVars, uploadVars>>
    /\ UNCHANGED sharedVars

\* an iteration that finds is_rect set, lines 389-392
ImguiSkip ==
    /\ imgui_pc = "loop"
    /\ idx < cmd.count
    /\ is_rect
    /\ is_rect' = FALSE
    /\ idx' = idx + 3
    /\ UNCHANGED <<imgui_pc, cmd, clip_rect, emitted, read, raw_callback>>
    /\ UNCHANGED <<loopVars, texVars, rendVars, uploadVars>>
    /\ UNCHANGED sharedVars

\* a test that also lets the last triangle look for a partner
HasNext_OffByOne(c, i) == i <= c.count - 3

\* if i < count - 3, line 406: another triangle follows triangle i
HasNext(c, i) == i < c.count - 3

\* an iteration that finds is_rect clear, lines 394-467.  Whether the
\* driver's call succeeds is not looked at (lines 453, 455).
ImguiTriangle ==
    /\ imgui_pc = "loop"
    /\ idx < cmd.count
    /\ ~is_rect
    /\ LET paired == HasNext(cmd, idx)
           rect == paired /\ IsRect(cmd, idx)
           surf == imgui_textures(cmd.texture_id)
       IN  /\ is_rect' = rect
           /\ read' = read \cup {cmd.idx_offset + idx + j :
                                     j \in 0..(IF paired THEN 5 ELSE 2)}
           /\ \E ok \in BOOLEAN :
                  emitted' =
                      IF ~IsSome(surf) THEN emitted
                      ELSE IF rect
                      THEN Append(emitted,
                                  RectBlit(cmd, idx, Unwrap(surf),
                                           clip_rect, ok))
                      ELSE Append(emitted,
                                  FilledPolygon(cmd, idx, clip_rect, ok))
    /\ idx' = idx + 3
    /\ UNCHANGED <<imgui_pc, cmd, clip_rect, raw_callback>>
    /\ UNCHANGED <<loopVars, texVars, rendVars, uploadVars>>
    /\ UNCHANGED sharedVars

\* an Elements arm that leaves the clip rectangle on the canvas
ImguiEnd_KeepsClip ==
    /\ imgui_pc = "loop"
    /\ idx >= cmd.count
    /\ imgui_pc' = "done"
    /\ borrow' = 0
    /\ UNCHANGED <<cmd, idx, is_rect, clip_rect, emitted, read, raw_callback>>
    /\ UNCHANGED <<loopVars, texVars, rendVars, uploadVars>>
    /\ UNCHANGED <<holders, strong, borrow_error, imgui_live>>

\* the loop is over: the clip rectangle is taken off (line 470) and, this
\* being the last command, render_imgui returns Ok(()) (line 480), which
\* ends the borrow of line 367
ImguiEnd ==
    /\ imgui_pc = "loop"
    /\ idx >= cmd.count
    /\ imgui_pc' = "done"
    /\ clip_rect' = None
    /\ borrow' = 0
    /\ UNCHANGED <<cmd, idx, is_rect, emitted, read, raw_callback>>
    /\ UNCHANGED <<loopVars, texVars, rendVars, uploadVars>>
    /\ UNCHANGED <<holders, strong, borrow_error, imgui_live>>

RECURSIVE SeqsOfLen(_, _)
SeqsOfLen(S, n) ==
    IF n = 0 THEN {<<>>}
    ELSE {Append(s, x) : s \in SeqsOfLen(S, n - 1), x \in S}

\* render_imgui is handed one Elements command of up to MaxTriangles
\* triangles, on the font texture or on an id that is not registered
InitImgui ==
    /\ LoopIdle
    /\ TexIdle
    /\ RendIdle
    /\ UploadIdle
    /\ imgui_pc = "idle"
    /\ \E n \in 1..MaxTriangles :
           \E ts \in SeqsOfLen(Triangles, n) :
               \E texture_id \in {FontTexId, OtherTexId} :
                   cmd = Elements(ts, texture_id)
    /\ idx = 0
    /\ is_rect = FALSE
    /\ clip_rect = None
    /\ emitted = <<>>
    /\ read = {}
    /\ raw_callback \in {""} \cup Callbacks

NextImgui ==
    \/ RenderImgui
    \/ ImguiRawCallback
    \/ ImguiBegin
    \/ ImguiSkip
    \/ ImguiTriangle
    \/ ImguiEnd

SpecImgui == InitImgui /\ [][NextImgui]_vars

(***************************************************************************)
(* A frame of run from prepare_frame on, with the render_imgui call that   *)
(* game.draw makes: run has entered its loop, polled an empty pump, and    *)
(* update has returned Ok with no scene to swap in.                        *)
(***************************************************************************)
InitBorrow ==
    /\ pc = "prepare"
    /\ queue = <<>>
    /\ arrived = <<>>
    /\ consumed = 0
    /\ renderer = TRUE
    /\ window_size = <<640, 480>>
    /\ screen_size = <<AsF32(640), AsF32(480)>>
    /\ display_size = <<AsF32(640), AsF32(480)>>
    /\ keyboard_context = {}
    /\ shutdown = FALSE
    /\ scene = None
    /\ next_scene = None
    /\ loops = 0
    /\ frame_time = 0
    /\ trace = <<Call("poll", <<>>), Call("update", <<"Ok">>)>>
    /\ frame = 0
    /\ holders = {EventLoopHolder} \cup RendererHolders
    /\ strong = 3
    /\ borrow = 0
    /\ borrow_error = ""
    /\ imgui_live = {"run"}
    /\ TexIdle
    /\ RendIdle
    /\ UploadIdle
    /\ imgui_pc = "idle"
    /\ \E n \in 1..MaxTriangles :
           \E ts \in SeqsOfLen(Triangles, n) : cmd = Elements(ts, FontTexId)
    /\ idx = 0
    /\ is_rect = FALSE
    /\ clip_rect = None
    /\ emitted = <<>>
    /\ read = {}
    /\ raw_callback \in {""} \cup Callbacks

NextBorrow ==
    \/ PrepareFrame
    \/ RenderImgui
    \/ ImguiRawCallback
    \/ ImguiBegin
    \/ ImguiSkip
    \/ ImguiTriangle
    \/ ImguiEnd
    \/ Draw

SpecBorrow == InitBorrow /\ [][NextBorrow]_vars

(***************************************************************************)
(* The upload of create_texture, lines 302-315: the closure handed to      *)
(* texture.with_lock copies the pixels, 4 bytes each, from the packed      *)
(* `data` into the locked buffer, whose rows are `pitch` bytes apart.      *)
(* Offsets count from 0, as in the source; the sequences hold offset k at  *)
(* index k + 1.                                                            *)
(***************************************************************************)
MaxWidth == 2
MaxHeight == 2
MaxPad == 4
MaxSeed == 3

\* RGBA bytes of an image, one pattern per seed
Pixels(seed, n) == [k \in 1..n |-> (seed * 64 + (k - 1) * 7) % 256]

\* an upload that takes the rows of the buffer to be packed
Offset_Packed(u, x, y) == y * u.width * 4 + x * 4

\* let offset = y * pitch + x * 4, line 305
Offset(u, x, y) == y * u.pitch + x * 4

\* let data_offset = (y * width as usize + x) * 4, line 306
DataOffset(u, x, y) == (y * u.width + x) * 4

\* buffer[offset] = data[data_offset] ... buffer[offset + 3] =
\* data[data_offset + 3], lines 308-311
CopyPixel(buf, u, x, y) ==
    [k \in 1..Len(buf) |->
        IF k - 1 \in {Offset(u, x, y) + c : c \in 0..3}
        THEN u.data[DataOffset(u, x, y) + (k - 1 - Offset(u, x, y)) + 1]
        ELSE buf[k]]

\* the two for loops, lines 303-304, up to and including pixel n, which is
\* pixel (x, y) = (n % width, n \div width) in the order of the loops
RECURSIVE CopyPixels(_, _, _)
CopyPixels(buf, u, n) ==
    IF n < 0 THEN buf
    ELSE CopyPixel(CopyPixels(buf, u, n - 1), u, n % u.width, n \div u.width)

\* the buffer with_lock hands to the closure: pitch bytes per row, none of
\* them written yet
Locked(u) == [k \in 1..(u.pitch * u.height) |-> -1]

\* texture.with_lock(None, |buffer, pitch| { ... }), lines 302-315
WithLock ==
    /\ upload # NoUpload
    /\ buffer = <<>>
    /\ buffer' = CopyPixels(Locked(upload), upload,
                            upload.width * upload.height - 1)
    /\ UNCHANGED upload
    /\ UNCHANGED <<loopVars, texVars, rendVars, imguiVars, sharedVars>>

\* create_texture is called with width x height pixels of data, and the
\* driver locks the texture with a pitch of at least 4 * width
InitUpload ==
    /\ LoopIdle
    /\ TexIdle
    /\ RendIdle
    /\ ImguiIdle
    /\ \E w \in 1..MaxWidth, h \in 1..MaxHeight, pad \in 0..MaxPad,
          seed \in 0..MaxSeed :
           upload = [width |-> w, height |-> h, pitch |-> 4 * w + pad,
                     data |-> Pixels(seed, w * h * 4)]
    /\ buffer = <<>>

SpecUpload == InitUpload /\ [][WithLock]_vars

(***************************************************************************)
(* Properties of the event dispatch.                                       *)
(***************************************************************************)
\* the index of the poll that follows entry i of t (past the end, if none)
NextPoll(t, i) ==
    IF \E j \in (i + 1)..Len(t) : t[j].op = "poll"
    THEN CHOOSE j \in (i + 1)..Len(t) :
             /\ t[j].op = "poll"
             /\ \A k \in (i + 1)..(j - 1) : t[k].op # "poll"
    ELSE Len(t) + 1

\* the calls the dispatch of the event handed over at entry i made
CallsOf(t, i) == SubSeq(t, i + 1, NextPoll(t, i) - 1)

\* entry i of t hands over the event dispatched last
IsLastHandled(t, i) ==
    /\ t[i].op = "handle_event"
    /\ \A j \in (i + 1)..Len(t) : t[j].op # "handle_event"

\* C5: a KeyDown event whose scancode maps to the engine key k results in
\* exactly one call key_down_event(k, repeat) and leaves the bit of k set;
\* a KeyUp event for it results in no call to the game and leaves the bit
\* clear.  For the platform scancode A the engine key is ScanCode::A.
C5_KeyTranslation ==
    \A i \in 1..Len(trace) :
        trace[i].op = "handle_event" =>
            LET e == trace[i].arg[1]
                code == IF IsSome(e.scancode) THEN Unwrap(e.scancode) ELSE ""
                k == IF code = "A" THEN "A"
                     ELSE Unwrap(conv_scancode(code))
            IN  e.type \in {"KeyDown", "KeyUp"} /\ code \in MappedScancodes =>
                    IF e.type = "KeyDown"
                    THEN /\ CallsOf(trace, i) =
                                <<Call("key_down_event", <<k, e.repeat>>)>>
                         /\ IsLastHandled(trace, i) => k \in keyboard_context
                    ELSE /\ CallsOf(trace, i) = <<>>
                         /\ IsLastHandled(trace, i) => k \notin keyboard_context

\* A went down as a repeat, then up
C5_Witness ==
    /\ Handled(trace) = <<KeyDown(Some("A"), TRUE), KeyUp(Some("A"))>>
    /\ "A" \notin keyboard_context

\* the event is a key event without a scancode, or with one that has no
\* arm of its own in conv_scancode
IsUnmappedKey(e) ==
    /\ e.type \in {"KeyDown", "KeyUp"}
    /\ e.scancode = None \/ Unwrap(e.scancode) \notin MappedScancodes

\* C6: the dispatch of a KeyDown or KeyUp event whose scancode is absent
\* or has no engine mapping hands the event to the immediate-UI event
\* handler, calls no entry point of the game and leaves every bit of
\* keyboard_context (and the rest of the context) as it was.
C6_Step ==
    queue # <<>> /\ IsUnmappedKey(Head(queue)) /\ Dispatches(Head(queue)) =>
        /\ trace' = IterTrace \o <<Call("poll", <<>>),
                                   Call("handle_event", <<Head(queue)>>)>>
        /\ keyboard_context' = keyboard_context
        /\ UNCHANGED <<shutdown, screen_size, display_size, pc>>

\* C6: dispatching a key event whose scancode is absent or untranslated
\* changes nothing in the keyboard context.
C6_UnmappedKey == [][C6_Step]_vars

\* a key event of an unmapped scancode was dispatched while A was down
C6_Witness ==
    /\ Handled(trace) = <<KeyDown(Some("A"), FALSE),
                          KeyUp(Some("International1"))>>
    /\ Last(trace).op = "handle_event"
    /\ keyboard_context = {"A"}

\* the key_down_event calls of t
RECURSIVE KeyDownCalls(_)
KeyDownCalls(t) ==
    IF t = <<>> THEN <<>>
    ELSE IF t[1].op = "key_down_event"
         THEN <<t[1]>> \o KeyDownCalls(Tail(t))
         ELSE KeyDownCalls(Tail(t))

\* two KeyDown events of distinct scancodes, both translated, were
\* dispatched
TwoKeysDown ==
    /\ Len(Handled(trace)) >= 2
    /\ Handled(trace)[1].type = "KeyDown"
    /\ Handled(trace)[2].type = "KeyDown"
    /\ Handled(trace)[1].scancode # Handled(trace)[2].scancode
    /\ Len(KeyDownCalls(trace)) = 2

\* C7, as claimed: two distinct platform scancodes never map to the same
\* engine ScanCode.
C7_Injective ==
    TwoKeysDown =>
        KeyDownCalls(trace)[1].arg[1] # KeyDownCalls(trace)[2].arg[1]

\* the pairs of platform scancodes conv_scancode maps to one engine key
AliasedScancodes ==
    {{"PrintScreen", "SysReq"}, {"KpEnter", "Return2"}, {"Mute", "AudioMute"}}

\* C7, amended: two distinct platform scancodes map to the same engine
\* ScanCode exactly when they are one of the three pairs PrintScreen and
\* SysReq (Sysrq), KpEnter and Return2 (NumpadEnter), Mute and AudioMute
\* (Mute).
C7_InjectiveButAliases ==
    TwoKeysDown =>
        LET a == Unwrap(Handled(trace)[1].scancode)
            b == Unwrap(Handled(trace)[2].scancode)
            ka == KeyDownCalls(trace)[1].arg[1]
            kb == KeyDownCalls(trace)[2].arg[1]
        IN  /\ ka = kb <=> {a, b} \in AliasedScancodes
            /\ {a, b} = {"PrintScreen", "SysReq"} => ka = "Sysrq"
            /\ {a, b} = {"KpEnter", "Return2"} => ka = "NumpadEnter"
            /\ {a, b} = {"Mute", "AudioMute"} => ka = "Mute"

\* PrintScreen and SysReq went down, and both were passed on as Sysrq
C7_Witness ==
    /\ TwoKeysDown
    /\ Handled(trace)[1].scancode = Some("PrintScreen")
    /\ Handled(trace)[2].scancode = Some("SysReq")
    /\ keyboard_context = {"Sysrq"}

\* C8: after a SizeChanged(w, h) event ctx.screen_size is
\* (max(w, 1), max(h, 1)) as f32 values (the integers themselves wherever
\* f32 holds them exactly), the display size of the immediate UI is the
\* same, and handle_resize is called exactly once for the event, with
\* both already updated.
C8_Resize ==
    \A i \in 1..Len(trace) :
        trace[i].op = "handle_event" =>
            LET e == trace[i].arg[1]
                size == <<AsF32(Max(e.w, 1)), AsF32(Max(e.h, 1))>>
            IN  e.type = "Window" /\ e.win_event = "SizeChanged" =>
                    /\ e.w <= F32Exact => size[1] = Max(e.w, 1)
                    /\ e.h <= F32Exact => size[2] = Max(e.h, 1)
                    /\ e.w = 0 /\ e.h = 720 => size = <<1, 720>>
                    /\ CallsOf(trace, i) =
                           <<Call("handle_resize", <<size, size>>)>>
                    /\ IsLastHandled(trace, i) =>
                           screen_size = size /\ display_size = size

\* a resize to a negative width and zero height, then one to (0, 720)
C8_Witness ==
    /\ Handled(trace) = <<SizeChanged(-3, 0), SizeChanged(0, 720)>>
    /\ screen_size = <<1, 720>>
    /\ display_size = <<1, 720>>

(***************************************************************************)
(* Properties of the texture's command buffer.                             *)
(***************************************************************************)
\* the commands added by the first n calls of h and not cleared since
RECURSIVE Buffer(_, _)
Buffer(h, n) ==
    IF n = 0 THEN <<>>
    ELSE IF h[n].op = "add" THEN Append(Buffer(h, n - 1), h[n].arg[1])
    ELSE IF h[n].op = "clear" THEN <<>>
    ELSE Buffer(h, n - 1)

\* the native blend mode the calls before call i of h leave in force
RECURSIVE BlendAt(_, _)
BlendAt(h, i) ==
    IF i <= 1 THEN "Blend"
    ELSE IF h[i - 1].op = "set_blend_mode"
         THEN NativeBlend(h[i - 1].arg[1])
         ELSE BlendAt(h, i - 1)

IsDraw(i) == i \in 1..Len(history) /\ history[i].op = "draw"

\* the canvas.copy calls call i made
BlitsAt(i) == SelectSeq(blits, LAMBDA b : b.at = i)

CmdsOf(bs) == [k \in 1..Len(bs) |-> bs[k].cmd]

\* what was handed to the texture and the canvas for each blit of call i
Issued(i) ==
    LET bs == BlitsAt(i)
    IN  [k \in 1..Len(bs) |->
            <<bs[k].color, bs[k].alpha, bs[k].blend, bs[k].src, bs[k].dest>>]

IsPrefix(s, t) == Len(s) <= Len(t) /\ s = SubSeq(t, 1, Len(s))

\* blits are issued by draw calls only, one call after the other
BlitsOnlyInDraw ==
    /\ \A k \in 1..Len(blits) : IsDraw(blits[k].at)
    /\ \A k \in 1..(Len(blits) - 1) : blits[k].at <= blits[k + 1].at

\* C9, as claimed: blits are issued only inside draw, and each draw issues
\* exactly one blit per command added since the most recent clear, in
\* insertion order.
C9_OneBlitPerCommand ==
    /\ BlitsOnlyInDraw
    /\ \A i \in 1..Len(history) :
           IsDraw(i) => CmdsOf(BlitsAt(i)) = Buffer(history, i - 1)

\* C9, amended: blits are issued only inside draw; a draw in which no blit
\* fails issues exactly one blit per command added since the most recent
\* clear, in insertion order; a draw in which a blit fails issues the blits
\* of the commands up to and including the failing one, in insertion
\* order, and none for the commands after it.
C9_BlitsOfDraw ==
    /\ BlitsOnlyInDraw
    /\ \A i \in 1..Len(history) :
           IsDraw(i) =>
               LET bs == BlitsAt(i)
               IN  IF history[i].arg[1]
                   THEN /\ CmdsOf(bs) = Buffer(history, i - 1)
                        /\ \A k \in 1..Len(bs) : bs[k].ok
                   ELSE /\ bs # <<>>
                        /\ IsPrefix(CmdsOf(bs), Buffer(history, i - 1))
                        /\ \A k \in 1..Len(bs) : bs[k].ok <=> k < Len(bs)

\* add, add, draw issued two blits in the order of the adds, and a draw
\* right after clear issued none
C9_Witness ==
    /\ Len(history) = 5
    /\ history[1].op = "add"
    /\ history[2].op = "add"
    /\ history[1].arg # history[2].arg
    /\ history[3] = [op |-> "draw", arg |-> <<TRUE>>]
    /\ history[4].op = "clear"
    /\ history[5].op = "draw"
    /\ CmdsOf(blits) = <<history[1].arg[1], history[2].arg[1]>>

\* the buffer, the dimensions and the handle are what the adds, the clears
\* and the creation left: no draw has changed them
DrawKeeps ==
    /\ commands = Buffer(history, Len(history))
    /\ texture = Some("texture")
    /\ <<width, height>> \in TexSizes

\* draws i and j have no add or clear between them and find the same blend
\* mode in force
SameBuffer(i, j) ==
    /\ IsDraw(i)
    /\ IsDraw(j)
    /\ i < j
    /\ \A k \in (i + 1)..(j - 1) : history[k].op \notin {"add", "clear"}
    /\ BlendAt(history, i) = BlendAt(history, j)

\* C10, as claimed: draw leaves the command buffer, the dimensions and the
\* handle unchanged whether it succeeds or fails, and two draws with no add
\* or clear between them and the same blend mode issue the identical
\* sequence of blits.
C10_SameBlits ==
    /\ DrawKeeps
    /\ \A i, j \in 1..Len(history) :
           SameBuffer(i, j) => Issued(i) = Issued(j)

\* the step is a call of draw
IsDrawStep == history' # history /\ Last(history').op = "draw"

\* C10, amended: draw leaves the command buffer, the dimensions and the
\* handle unchanged whether it succeeds or fails; two draws with no add or
\* clear between them and the same blend mode issue the identical sequence
\* of blits if both succeed, and a draw that fails issues a prefix of it.
C10_State ==
    /\ DrawKeeps
    /\ \A i, j \in 1..Len(history) :
           SameBuffer(i, j) =>
               /\ history[i].arg[1] /\ history[j].arg[1] =>
                      Issued(i) = Issued(j)
               /\ \/ IsPrefix(Issued(i), Issued(j))
                  \/ IsPrefix(Issued(j), Issued(i))

C10_Step == IsDrawStep => UNCHANGED <<commands, width, height, texture>>

\* C10: a draw step leaves commands, dimensions and handle unchanged; two
\* successful draws over one buffer issue the same blits, a failed one a prefix.
C10_DrawKeeps == []C10_State /\ [][C10_Step]_vars

\* a draw that failed at the first of two commands, then one that
\* succeeded, the buffer still holding both commands
C10_Witness ==
    /\ Len(history) = 4
    /\ history[3] = [op |-> "draw", arg |-> <<FALSE>>]
    /\ history[4] = [op |-> "draw", arg |-> <<TRUE>>]
    /\ Len(BlitsAt(3)) = 1
    /\ Len(BlitsAt(4)) = 2
    /\ Len(commands) = 2


(***************************************************************************)
(* Properties of the renderer and its textures.                            *)
(***************************************************************************)
\* the native mode the latest set_blend_mode call asked for
ModeInForce ==
    IF requested.blend = None THEN "Blend"
    ELSE CASE Unwrap(requested.blend) = "Alpha" -> "Blend"
           [] Unwrap(requested.blend) = "Add" -> "Add"
           [] Unwrap(requested.blend) = "Multiply" -> "Mod"

\* the latest call was a draw that issued at least one blit
DrewBlits == returned.op = "draw" /\ driver # <<>>

\* C11: every blit of a draw, on any texture of the renderer, uses the
\* native mode mapped from the latest set_blend_mode call (Alpha to Blend,
\* Add to Add, Multiply to Mod, three distinct modes), or Blend if there
\* was no such call; the mode in force when the command was added or the
\* texture was created plays no part.
C11_BlendOfLatestCall ==
    /\ Cardinality({NativeBlend(blend) : blend \in BlendModes}) = 3
    /\ returned.op = "draw" =>
           \A k \in 1..Len(driver) :
               /\ driver[k].call = "copy"
               /\ driver[k].blend = ModeInForce

\* a texture created under one mode, with a command added under a second,
\* is drawn under a third, after the other texture was drawn too
C11_Witness ==
    /\ DrewBlits
    /\ LET t == textures[returned.arg[1]]
       IN  /\ t.created_under # t.under[1]
           /\ t.created_under # driver[1].blend
           /\ t.under[1] # driver[1].blend
           /\ driver[1].blend = "Mod"


\* the target the latest set_render_target call asked for: the handle of
\* its texture, or the window for None and for a texture without a handle
TargetAskedFor ==
    IF IsSome(requested.target)
       /\ IsSome(textures[Unwrap(requested.target)].texture)
    THEN Unwrap(textures[Unwrap(requested.target)].texture)
    ELSE 0

\* C12: after any sequence of set_render_target calls the draw target is
\* the native surface of the texture of the latest call, or the window if
\* that call passed None or a texture without a handle; clear and texture
\* draws issued afterwards go to that target.
C12_TargetOfLatestCall ==
    /\ target = TargetAskedFor
    /\ \A k \in 1..Len(driver) :
           driver[k].call \in {"clear", "copy"} =>
               driver[k].target = TargetAskedFor


\* a driver call made by the latest operation failed
DriverFailed == \E k \in 1..Len(driver) : ~driver[k].ok

\* C13: a renderer operation in which a driver call failed returns
\* RenderError, never Ok; set_render_target does so when the driver fails
\* to switch the target.
C13_FailureSurfaces == DriverFailed => returned.result = "RenderError"


\* the position of the blit of draw i that failed (0: none did)
FailedAt(i) ==
    LET bs == BlitsAt(i)
    IN  IF \E n \in 1..Len(bs) : ~bs[n].ok
        THEN CHOOSE n \in 1..Len(bs) : ~bs[n].ok
        ELSE 0

C14_State ==
    \A i \in 1..Len(history) :
        IsDraw(i) =>
            LET bs == BlitsAt(i)
                n == FailedAt(i)
            IN  /\ n = 0 <=> history[i].arg[1]
                /\ n # 0 =>
                       /\ Len(bs) = n
                       /\ n <= Len(Buffer(history, i - 1))
                       /\ \A k \in 1..n :
                              /\ bs[k].cmd = Buffer(history, i - 1)[k]
                              /\ bs[k].ok <=> k < n

C14_Step ==
    IsDrawStep /\ ~Last(history').arg[1] => commands' = commands

\* C14: if the blit of the n-th buffered command fails, draw returns
\* RenderError, the blits of commands 1..n-1 were issued in order before
\* it, no blit is issued for a command after the n-th, and the command
\* buffer is what it was.
C14_FailedDraw == []C14_State /\ [][C14_Step]_vars

\* a draw over three commands failed at the second: one blit succeeded,
\* the second failed, the third command was not reached and is still held
C14_Witness ==
    /\ Len(history) = 4
    /\ history[4] = [op |-> "draw", arg |-> <<FALSE>>]
    /\ Len(commands) = 3
    /\ Len(blits) = 2
    /\ blits[1].ok
    /\ ~blits[2].ok


C15_State ==
    /\ \A id \in TexIds :
           /\ textures[id].state = "absent" =>
                  textures[id].texture = None /\ released[id] = 0
           /\ textures[id].state = "live" =>
                  textures[id].texture = Some(id) /\ released[id] = 0
           /\ textures[id].state = "dropped" =>
                  textures[id].texture = None /\ released[id] = 1
    /\ drop(None) = [texture |-> None, destroyed |-> <<>>]
    /\ \A k \in 1..Len(driver) :
           driver[k].call = "destroy" =>
               returned.op \in {"drop", "drop_renderer"}

C15_Step ==
    released' # released =>
        /\ returned'.op = "drop"
        /\ textures[returned'.arg[1]].state = "live"
        /\ \A id \in TexIds :
               released'[id] = released[id] +
                               (IF id = returned'.arg[1] THEN 1 ELSE 0)

\* C15: the native handle of a texture is destroyed exactly once, by the
\* drop of the texture that holds it, which leaves the slot empty; the drop
\* of an empty slot destroys nothing; add, clear, draw and
\* set_render_target destroy nothing.
C15_ReleasedOnce == []C15_State /\ [][C15_Step]_vars

\* a texture that was filled, drawn and made the render target has been
\* dropped and its handle destroyed once, the other texture still being
\* alive with its handle
C15_Witness ==
    /\ returned = Returned("drop", <<1>>, "")
    /\ driver = <<DriverCall("destroy", 1, 1, "", TRUE)>>
    /\ textures[1].state = "dropped"
    /\ textures[1].commands # <<>>
    /\ released = [id \in TexIds |-> IF id = 1 THEN 1 ELSE 0]
    /\ textures[2].state = "live"


(***************************************************************************)
(* Properties of render_imgui.                                             *)
(***************************************************************************)
MinOf(S) == CHOOSE x \in S : \A y \in S : x <= y
MaxOf(S) == CHOOSE x \in S : \A y \in S : x >= y

\* coordinate a (1: x, 2: y) of the n vertices from index i on
Coords(c, i, n, a) == {Vertex(c, i + j).pos[a] : j \in 0..(n - 1)}
TexCoords(c, i, n, a) == {Vertex(c, i + j).uv[a] : j \in 0..(n - 1)}

\* six indices remain at i, and each of the six vertices has its x among
\* the least and the greatest x of the first three and its y likewise
OnCorners(c, i) ==
    /\ i + 6 <= c.count
    /\ \A a \in 1..2 :
           Coords(c, i, 6, a) \subseteq
               {MinOf(Coords(c, i, 3, a)), MaxOf(Coords(c, i, 3, a))}

\* the half-pixel cells of the canvas, and those whose centre a triangle
\* or a rectangle of whole pixels covers
Cells == (0..15) \X (0..9)

Cross(p, q, r) ==
    (q[1] - p[1]) * (r[2] - p[2]) - (q[2] - p[2]) * (r[1] - p[1])

InTriangle(s, p, q, r) ==
    /\ Cross(p, q, r) # 0
    /\ \/ Cross(p, q, s) >= 0 /\ Cross(q, r, s) >= 0 /\ Cross(r, p, s) >= 0
       \/ Cross(p, q, s) <= 0 /\ Cross(q, r, s) <= 0 /\ Cross(r, p, s) <= 0

TriangleCells(c, i) ==
    LET corner(j) == <<2 * Vertex(c, i + j).pos[1],
                       2 * Vertex(c, i + j).pos[2]>>
    IN  {cell \in Cells :
            InTriangle(<<2 * cell[1] + 1, 2 * cell[2] + 1>>,
                       corner(0), corner(1), corner(2))}

RectCells(r) ==
    {cell \in Cells : /\ 2 * r[1] <= cell[1]
                      /\ cell[1] < 2 * (r[1] + r[3])
                      /\ 2 * r[2] <= cell[2]
                      /\ cell[2] < 2 * (r[2] + r[4])}

\* the rectangle r, in units of 1 / d, is the bounding rectangle of xs, ys
IsBounding(r, d, xs, ys) ==
    /\ d * r[1] = MinOf(xs)
    /\ d * r[2] = MinOf(ys)
    /\ d * r[3] = MaxOf(xs) - MinOf(xs)
    /\ d * r[4] = MaxOf(ys) - MinOf(ys)

Scaled(S, n) == {x * n : x \in S}

Blits == {k \in 1..Len(emitted) : emitted[k].kind = "blit"}
Fills == {k \in 1..Len(emitted) : emitted[k].kind = "fill"}

\* C16: when the six vertices of two consecutive triangles lie on the
\* corners spanned by the first, the dest and UV rectangles of the blit
\* are the bounding rectangles of the two triangles, and the blit covers
\* exactly what the two triangles cover.
C16_CoalescingSound ==
    \A k \in Blits :
        LET i == emitted[k].i
            surf == Unwrap(imgui_textures(cmd.texture_id))
        IN  /\ OnCorners(cmd, i)
            /\ IsBounding(emitted[k].dest, 2,
                          Coords(cmd, i, 6, 1), Coords(cmd, i, 6, 2))
            /\ IsBounding(emitted[k].src, 4,
                          Scaled(TexCoords(cmd, i, 6, 1), surf.width),
                          Scaled(TexCoords(cmd, i, 6, 2), surf.height))
            /\ RectCells(emitted[k].dest) =
                   TriangleCells(cmd, i) \cup TriangleCells(cmd, i + 3)


\* the step is an iteration of the loop that does not find is_rect set:
\* it handles the triangle at idx
IsTriangleStep == imgui_pc = "loop" /\ ~is_rect /\ idx' = idx + 3

Registered == IsSome(imgui_textures(cmd.texture_id))

C17_State ==
    imgui_pc = "loop" /\ is_rect => OnCorners(cmd, idx - 3)

C17_Step ==
    /\ IsTriangleStep =>
           {cmd.idx_offset + idx + j : j \in 0..2} \subseteq read'
    /\ IsTriangleStep /\ ~OnCorners(cmd, idx) =>
           /\ ~is_rect'
           /\ Registered =>
                  /\ Len(emitted') = Len(emitted) + 1
                  /\ SubSeq(emitted', 1, Len(emitted)) = emitted
                  /\ Last(emitted').kind = "fill"
                  /\ Last(emitted').i = idx
           /\ ~Registered => emitted' = emitted

\* C17: if one of the six vertices is off the corners spanned by the
\* first triangle, or fewer than six indices remain, the triangle is not
\* blitted as a rectangle but takes the triangle path, and the triangle
\* after it is not skipped: the next iteration handles it.
C17_CoalescingRejected == []C17_State /\ [][C17_Step]_vars

\* of two triangles on a registered texture the second has a vertex that
\* is no corner: both were filled, none was skipped
C17_Witness ==
    /\ imgui_pc = "done"
    /\ Registered
    /\ cmd.count = 6
    /\ ~OnCorners(cmd, 0)
    /\ Coords(cmd, 0, 3, 1) = {4, 12}
    /\ Coords(cmd, 0, 3, 2) = {2, 6}
    /\ Coords(cmd, 3, 3, 1) = {4, 8, 12}
    /\ Len(emitted) = 2
    /\ emitted[1].kind = "fill" /\ emitted[1].i = 0
    /\ emitted[2].kind = "fill" /\ emitted[2].i = 3


\* the half-pixel cells of the bounding rectangle of the six vertices at i
BoundingCells(c, i) ==
    {cell \in Cells : /\ MinOf(Coords(c, i, 6, 1)) <= cell[1]
                      /\ cell[1] < MaxOf(Coords(c, i, 6, 1))
                      /\ MinOf(Coords(c, i, 6, 2)) <= cell[2]
                      /\ cell[2] < MaxOf(Coords(c, i, 6, 2))}

\* the command is six indices whose two triangles make up an axis-aligned
\* rectangle, on a registered texture, and render_imgui is through with it
QuadDone ==
    /\ imgui_pc = "done"
    /\ Registered
    /\ cmd.count = 6
    /\ OnCorners(cmd, 0)
    /\ BoundingCells(cmd, 0) # {}
    /\ TriangleCells(cmd, 0) \cup TriangleCells(cmd, 3) = BoundingCells(cmd, 0)

\* just one primitive was drawn, a blit with the modulation of the first
\* vertex
OneBlit ==
    /\ Len(emitted) = 1
    /\ emitted[1].kind = "blit"
    /\ emitted[1].i = 0
    /\ emitted[1].col = Vertex(cmd, 0).col
    /\ Fills = {}

CutBounding(d, xs, ys) ==
    <<Trunc(MinOf(xs), d), Trunc(MinOf(ys), d),
      Trunc(MaxOf(xs) - MinOf(xs), d), Trunc(MaxOf(ys) - MinOf(ys), d)>>

RECURSIVE IsFirstOfPair(_, _)
IsFirstOfPair(c, k) ==
    /\ OnCorners(c, k)
    /\ k < 3 \/ ~IsFirstOfPair(c, k - 3)

Coalesced(c, k) ==
    IsFirstOfPair(c, k) \/ (k >= 3 /\ IsFirstOfPair(c, k - 3))

TriangleStarts(c) == {k \in 0..(c.count - 1) : k % 3 = 0}

\* exactly one triangle was filled for the triangle at k, in the colour of
\* its first vertex
OneFill(k) ==
    /\ Cardinality({f \in Fills : emitted[f].i = k}) = 1
    /\ \A f \in Fills : emitted[f].i = k =>
           emitted[f].col = Vertex(cmd, k).col

RunEntered == pc = "start" /\ pc' # "start"

\* C20, as claimed: run is called before new_renderer and does not need a
\* renderer to exist: it is entered with none created yet and reaches its
\* loop.
C20_RunFirst == [][RunEntered => ~renderer /\ pc' = "poll"]_vars

C20_State == pc \notin {"start", "panicked"} => renderer

C20_Step ==
    RunEntered => pc' = (IF renderer THEN "poll" ELSE "panicked")

\* C20, amended: new_renderer needs only the event loop that
\* EventLoop::new has built and is called before run; run requires its
\* renderer to exist already: entered without one it panics at once, and
\* it reaches its loop only with one.
C20_NewRendererFirst == []C20_State /\ [][C20_Step]_vars

\* run has reached its loop, new_renderer having been called before it
C20_Witness ==
    /\ pc = "poll"
    /\ renderer
    /\ frame = 0
    /\ trace = <<>>
    /\ screen_size = <<640, 480>>


(***************************************************************************)
(* Properties of the forwarding of events to the immediate-UI library.     *)
(***************************************************************************)
\* the events the pump has handed out so far
Pumped == SubSeq(arrived, 1, Len(arrived) - Len(queue))

\* C23: every event the pump has returned, whatever its type, has been
\* handed to the immediate-UI event handler exactly once, in the order the
\* pump delivered it, right after the poll that returned it and before any
\* call its match arm makes.
C23_ForwardedOnce ==
    /\ Handled(trace) = Pumped
    /\ \A i \in 1..Len(trace) :
           trace[i].op = "handle_event" => i > 1 /\ trace[i - 1].op = "poll"
    /\ \A i \in 1..Len(trace) :
           /\ trace[i].op = "poll"
           /\ i < Len(trace) \/ queue # <<>>
           => i < Len(trace) /\ trace[i + 1].op = "handle_event"

\* a Quit and an event no arm matches have both been pumped and forwarded
C23_Witness ==
    /\ queue = <<>>
    /\ Len(Handled(trace)) >= 2
    /\ \E i, j \in 1..Len(arrived) :
           arrived[i].type = "Quit" /\ arrived[j].type = "MouseMotion"


(***************************************************************************)
(* Properties of the errors of the game inside the frame loop.             *)
(***************************************************************************)
\* a call of update, init or draw that returned an error
Failed(c) ==
    /\ c.op \in {"update", "init", "draw"}
    /\ c.arg[Len(c.arg)] = "Err"

C28_State ==
    /\ \A i \in 1..Len(trace) :
           Failed(trace[i]) => i = Len(trace) /\ pc = "panicked"
    /\ pc = "panicked" /\ renderer => trace # <<>> /\ Failed(Last(trace))

C28_Step == pc # "panicked"

\* C28: an error returned by game.update, by scene.init or by game.draw is
\* the last call run makes: the thread panics there; no swap, init,
\* prepare_frame or draw follows it in the iteration and no step of run is
\* taken afterwards.
C28_ErrorPanics == []C28_State /\ [][C28_Step]_vars

\* update failed, after an event was dispatched, with a scene waiting to be
\* swapped in
C28_Witness ==
    /\ pc = "panicked"
    /\ trace # <<>>
    /\ Last(trace).op = "update"
    /\ Failed(Last(trace))
    /\ IsSome(next_scene)
    /\ Handled(trace) # <<>>


(***************************************************************************)
(* Properties of the keyboard context under several held keys.             *)
(***************************************************************************)
\* the platform keys that are down after the events of es: those whose
\* latest event is a KeyDown
RECURSIVE HeldKeys(_)
HeldKeys(es) ==
    IF es = <<>> THEN {}
    ELSE LET e == Last(es)
             before == HeldKeys(SubSeq(es, 1, Len(es) - 1))
         IN  IF e.type = "KeyDown" /\ IsSome(e.scancode)
             THEN before \cup {Unwrap(e.scancode)}
             ELSE IF e.type = "KeyUp" /\ IsSome(e.scancode)
             THEN before \ {Unwrap(e.scancode)}
             ELSE before

\* the engine keys some held platform key maps to
HeldEngineKeys ==
    {Unwrap(conv_scancode(c)) :
         c \in {h \in HeldKeys(Handled(trace)) : IsSome(conv_scancode(h))}}

\* C29: the keyboard-context bit of an engine key is set exactly when at
\* least one platform key that maps to it is held; in particular the
\* release of one platform key does not clear the bit of an engine key that
\* another platform key, still held, maps to.
C29_BitIffHeld == keyboard_context = HeldEngineKeys


(***************************************************************************)
(* Properties of the ownership of the shared context.                      *)
(***************************************************************************)
\* the latest call was made on a texture (the renderer's clear has no
\* texture argument)
IsTextureCall(r) == r.op \in {"add", "clear", "draw", "drop"} /\ r.arg # <<>>

C21_State ==
    /\ strong = Cardinality(holders)
    /\ \A id \in LiveIds : Holder("texture", id) \in holders
    /\ holders # {} => strong > 0

C21_Step ==
    returned' # returned /\ IsTextureCall(returned') =>
        /\ strong > 0
        /\ Holder("texture", returned'.arg[1]) \in holders

\* C21: the context is alive, its strong count above zero, as long as the
\* event loop, the renderer or any texture is alive, each of them holding
\* one reference; every add, clear, draw and drop of a texture finds the
\* context alive, also after the renderer and the event loop are gone.
C21_ContextOutlives == []C21_State /\ [][C21_Step]_vars

\* a texture has drawn after both the renderer and the event loop were
\* dropped
C21_Witness ==
    /\ holders \cap (RendererHolders \cup {EventLoopHolder}) = {}
    /\ returned.op = "draw"
    /\ returned.result = "Ok"
    /\ driver # <<>>


(***************************************************************************)
(* Properties of the pixel upload.                                         *)
(***************************************************************************)
\* the offsets of the buffer that belong to a pixel
PixelOffsets(u) ==
    {y * u.pitch + x * 4 + c :
         x \in 0..(u.width - 1), y \in 0..(u.height - 1), c \in 0..3}

\* the image read back from the buffer row by row, honouring the pitch
ReadBack(buf, u) ==
    [k \in 1..(u.width * u.height * 4) |->
        buf[((k - 1) \div (4 * u.width)) * u.pitch
            + ((k - 1) % (4 * u.width)) + 1]]

\* C22: create_texture writes data[(y * w + x) * 4 + c] to offset
\* y * p + x * 4 + c of the locked buffer for every pixel (x, y) and channel
\* c, writes no other offset, and reading the buffer back row by row with
\* the pitch gives the bytes of data.
C22_PitchUpload ==
    buffer # <<>> =>
        /\ \A x \in 0..(upload.width - 1), y \in 0..(upload.height - 1),
              c \in 0..3 :
               buffer[y * upload.pitch + x * 4 + c + 1] =
                   upload.data[(y * upload.width + x) * 4 + c + 1]
        /\ \A k \in 1..Len(buffer) :
               k - 1 \notin PixelOffsets(upload) => buffer[k] = -1
        /\ ReadBack(buffer, upload) = upload.data

\* an image of two rows was uploaded into a buffer whose rows are padded
C22_Witness ==
    /\ buffer # <<>>
    /\ upload.height >= 2
    /\ upload.width >= 2
    /\ upload.pitch > 4 * upload.width


(***************************************************************************)
(* Properties of the references to the imgui context.                      *)
(***************************************************************************)
\* C26: at no point are two mutable references to the imgui context live
\* at once: none is held by the event loop while another one is obtained
\* through Renderer.imgui().
C26_SingleReference == Cardinality(imgui_live) <= 1


(***************************************************************************)
(* Properties of the borrows of the shared context.                        *)
(***************************************************************************)
\* render_imgui is between its entry and its return
InRenderImgui == imgui_pc \in {"callback", "elements", "loop"}

\* C25, as claimed: no borrow of the context is attempted while it is
\* mutably borrowed, so no borrow panics, the borrows made from a callback
\* that runs inside an operation included.
C25_NoNestedBorrow == borrow_error = ""

\* C25, amended: at most one mutable borrow of the context is active at a
\* time, held by the one operation that is running, and the run phases and
\* the operations never attempt a borrow of their own while it is active;
\* the one nested attempt is that of a RawCallback callback that calls an
\* operation of the renderer or of a texture, which render_imgui invokes
\* with its mutable borrow held, and it panics.
C25_NestedOnlyInCallback ==
    /\ borrow \in {-1, 0}
    /\ borrow = -1 <=>
           \/ InRenderImgui
           \/ imgui_pc = "panicked" /\ borrow_error = "RawCallback"
    /\ borrow_error \in {"", "RawCallback"}
    /\ borrow_error = "RawCallback" <=>
           imgui_pc = "panicked" /\ raw_callback \in BackendCalls
    /\ raw_callback \in BackendCalls =>
           imgui_pc \in {"idle", "callback", "panicked"}
    /\ pc = "panicked" => borrow_error = "" /\ Failed(Last(trace))

\* inside the draw of a frame, the callback of a RawCallback command has
\* called the draw of a texture and panicked on its borrow
C25_Witness ==
    /\ pc = "draw"
    /\ Last(trace).op = "prepare_frame"
    /\ raw_callback = "draw"
    /\ imgui_pc = "panicked"
    /\ borrow = -1


(***************************************************************************)
(* Properties of the clip rectangle of render_imgui.                       *)
(***************************************************************************)
\* C24: every blit and filled triangle of an Elements command is drawn
\* with the canvas clip rectangle set to the command's (cast to integers as
\* Rect::new takes it), the clip rectangle stays set for the whole of the
\* command and is taken off when the command is over, so the canvas has
\* none before the command and none when render_imgui has returned.
C24_ClipPerCommand ==
    /\ \A k \in 1..Len(emitted) : emitted[k].clip = Some(ClipOf(cmd))
    /\ imgui_pc = "loop" => clip_rect = Some(ClipOf(cmd))
    /\ imgui_pc \in {"idle", "callback", "elements", "done"} =>
           clip_rect = None

\* render_imgui has returned from a command that drew a blit and a filled
\* triangle
C24_Witness ==
    /\ imgui_pc = "done"
    /\ clip_rect = None
    /\ Blits # {}
    /\ Fills # {}

(***************************************************************************)
(* Properties of the walk over the triangles of an Elements command.       *)
(***************************************************************************)
\* the primitives that account for the triangle at k: its own fill, the
\* blit it starts, or the blit the triangle before it starts
Accounting(k) ==
    {p \in 1..Len(emitted) :
         \/ emitted[p].i = k
         \/ emitted[p].kind = "blit" /\ emitted[p].i = k - 3}

C30_State ==
    /\ \A n \in read : n < cmd.idx_offset + cmd.count
    /\ imgui_pc = "done" /\ Registered /\ cmd.count % 3 = 0 =>
           /\ Cardinality(Fills) + 2 * Cardinality(Blits) = cmd.count \div 3
           /\ \A k \in TriangleStarts(cmd) : Cardinality(Accounting(k)) = 1

C30_Step ==
    imgui_pc = "loop" /\ is_rect /\ idx' = idx + 3 /\ Registered =>
        /\ emitted' = emitted
        /\ emitted # <<>>
        /\ Last(emitted).kind = "blit"
        /\ Last(emitted).i = idx - 3

\* C30: for an Elements command of a registered texture whose count is a
\* multiple of 3, the filled triangles plus twice the blits are count / 3
\* and every triangle is accounted for by exactly one primitive; an
\* iteration is skipped only right after the blit that coalesced its
\* triangle with the one before; no index at or beyond idx_offset + count
\* is read.
C30_TrianglesAccounted == []C30_State /\ [][C30_Step]_vars

\* a command of three triangles was drawn as one blit and one fill
C30_Witness ==
    /\ imgui_pc = "done"
    /\ Registered
    /\ cmd.count = 9
    /\ Cardinality(Blits) = 1
    /\ Cardinality(Fills) = 1


(***************************************************************************)
(* Properties of the src rectangles in the command buffer.                 *)
(***************************************************************************)
\* the src rectangles of the commands cs are within the texture
AllInTexture(cs) ==
    \A k \in 1..Len(cs) : InTexture(cs[k].src, width, height)

\* C27, as claimed: every command in the buffer has a src rectangle within
\* the texture; add stores no command that has not.
C27_SrcContained == AllInTexture(commands)

C27_State == commands = Buffer(history, Len(history))

C27_Step ==
    /\ Len(history') = Len(history) + 1
    /\ Last(history').op = "add"
    => commands' = Append(commands, Last(history').arg[1])

\* C27, amended: add stores every command it is given, unchanged and
\* unchecked, at the end of the buffer, so the buffer holds the commands
\* added since the last clear and their src rectangles are within the
\* texture exactly when those the caller passed were.
C27_StoredAsGiven == []C27_State /\ [][C27_Step]_vars

\* a command whose src reaches beyond the texture sits in the buffer and
\* was handed to the driver by a draw
C27_Witness ==
    /\ ~AllInTexture(commands)
    /\ \E k \in 1..Len(blits) : ~InTexture(blits[k].cmd.src, width, height)


(***************************************************************************)
(* Properties of the shutdown by a Quit event.                             *)
(***************************************************************************)
\* a Quit event was dispatched in the iteration of the trace
QuitDispatched ==
    \E i \in 1..Len(Handled(trace)) : Handled(trace)[i].type = "Quit"

\* after the dispatch of a Quit the iteration goes no further than the test
\* of the latch: no swap, init, prepare_frame or draw, and no next iteration
C31_State ==
    QuitDispatched =>
        /\ shutdown
        /\ pc \in {"poll", "update", "check", "done", "panicked"}
        /\ \A i \in 1..Len(trace) :
               trace[i].op \in {"poll", "handle_event", "shutdown",
                                "key_down_event", "update"}

\* C31: if every call of update, init and draw returns Ok, then once a Quit
\* event has been dispatched run returns, and it returns in the iteration
\* of that dispatch: after the update of the iteration, without a draw.
C31_QuitReturns ==
    /\ []C31_State
    /\ [](pc # "panicked") => (QuitDispatched ~> pc = "done")

\* run has returned from its second iteration, in which a Quit was
\* dispatched and update was called
C31_Witness ==
    /\ pc = "done"
    /\ QuitDispatched
    /\ HasOp(trace, "update")
    /\ frame >= 1

====
